---- MODULE Spec2Model ----
(***************************************************************************)
(* Model of three parts of pasture:                                        *)
(*   - Device (pasture-core/src/gpu/device.rs): upload, align_slice,       *)
(*     set_compute_shader, compute, download;                              *)
(*   - PntsWriter (pasture-io/src/tiles3d/pnts_writer.rs): write, flush,   *)
(*     drop;                                                               *)
(*   - the realignment function align_slice as a pure function;            *)
(*   - ExtraBytesRecord (pasture-io/src/las/extra_bytes.rs): the NO_DATA   *)
(*     and minimum-value accessors, and the raw record;                    *)
(*   - PointLayout and the two point buffers (pasture-core layout and      *)
(*     containers): add_attribute, push, get_raw_attribute_range.          *)
(* Each part has its own specification over the shared variables.          *)
(***************************************************************************)
EXTENDS Integers, Sequences, FiniteSets, TLC

VARIABLES
    endian,            \* byte order of the build target ("little" or "big")
    \* ---- realignment as a pure function
    a_datatype,        \* data type handed to align_slice
    a_slice,           \* bytes handed to align_slice
    a_result,          \* what align_slice did: done, panic, bytes
    \* ---- PntsWriter
    w_pc,              \* "open", "unwinding", "dropped", "panicked", "aborted"
    expected_layout,   \* PntsWriter.expected_layout
    default_layout,    \* PntsWriter.default_layout
    cached_points,     \* PntsWriter.cached_points (sequence of points)
    w_block,           \* number of points each element of cached_points stands for
    requires_flush,    \* PntsWriter.requires_flush
    sink,              \* what PntsWriter.writer has received, in order
    w_written,         \* points passed to write() calls that returned Ok
    w_serialized,      \* number of write_cached_points runs that returned Ok
    w_calls,           \* number of write()/flush() calls made so far
    w_failures,        \* number of flush() runs that returned an error
    w_last,            \* outcome of the most recent call
    w_arg,             \* point layout of the buffer passed to the most recent write()
    \* ---- Device
    point_buffer_len,  \* number of points of the PointBuffer handed to upload()
    upload_buffers,    \* Device.upload_buffers
    download_buffers,  \* Device.download_buffers
    buffer_sizes,      \* Device.buffer_sizes
    buffer_bindings,   \* Device.buffer_bindings
    cs_module,         \* Device.cs_module
    bind_group,        \* Device.bind_group
    compute_pipeline,  \* Device.compute_pipeline
    queue,             \* command batches submitted to Device.queue
    d_calls,           \* number of calls made on the device, per operation
    d_last,            \* the most recent call with its inputs and outcome
    \* ---- ExtraBytesRecord
    e_record,          \* the record: data_type, no_data_value, min_value
    e_call,            \* the accessor called on the record, "none" before the call
    e_result,          \* what the accessor did: outcome, some, value
    \* ---- PointLayout and the point buffers
    s_pc,              \* "idle", "layout" (attributes are added), "buffers" (points are stored)
    s_layout,          \* PointLayout: the attributes with their offsets, in insertion order
    s_points,          \* the points pushed so far: per point the values of the attributes
    s_columnar,        \* per-attribute storage: one byte region per attribute
    s_interleaved,     \* interleaved storage: one byte region
    s_read             \* the most recent get_raw_attribute_range on both buffers

alignVars == <<a_datatype, a_slice, a_result>>

writerVars == <<w_pc, expected_layout, default_layout, cached_points, w_block, requires_flush,
                sink, w_written, w_serialized, w_calls, w_failures, w_last, w_arg>>

deviceVars == <<point_buffer_len, upload_buffers, download_buffers, buffer_sizes, buffer_bindings,
                cs_module, bind_group, compute_pipeline, queue, d_calls, d_last>>

extraVars == <<e_record, e_call, e_result>>

storageVars == <<s_pc, s_layout, s_points, s_columnar, s_interleaved, s_read>>

vars == <<endian, alignVars, writerVars, deviceVars, extraVars, storageVars>>

\* ---------------------------------------------------------------------------
\* Bounds of the model
\* ---------------------------------------------------------------------------

MaxElems == 2
MaxSeed == 4

\* ---------------------------------------------------------------------------
\* Bytes and sequences
\* ---------------------------------------------------------------------------

Endians == {"little", "big"}

\* Byte values the inputs are drawn from: both sides of the sign bit.
Palette == <<0, 1, 127, 128, 255>>

RECURSIVE Concat(_)
Concat(ss) == IF ss = <<>> THEN <<>> ELSE Head(ss) \o Concat(Tail(ss))

Reverse(s) == [i \in 1..Len(s) |-> s[Len(s) + 1 - i]]

\* slice[begin..end] with Rust's zero-based, end-exclusive bounds
Slice(s, begin, end) == SubSeq(s, begin + 1, end)

\* The point attribute data types (PointAttributeDataType)
DataTypes == {"U8", "I8", "U16", "I16", "U32", "I32", "U64", "I64",
              "F32", "F64", "Bool", "Vec3u8", "Vec3u16", "Vec3f32", "Vec3f64"}

\* ---------------------------------------------------------------------------
\* Device::bytes_per_element and Device::align_slice
\* ---------------------------------------------------------------------------

bytes_per_element(datatype) ==
    CASE datatype = "U8" -> 1
      [] datatype = "I8" -> 1
      [] datatype = "U16" -> 2
      [] datatype = "I16" -> 2
      [] datatype = "U32" -> 4
      [] datatype = "I32" -> 4
      [] datatype = "U64" -> 8
      [] datatype = "I64" -> 8
      [] datatype = "F32" -> 4
      [] datatype = "F64" -> 8
      [] datatype = "Bool" -> 1
      [] datatype = "Vec3u8" -> 3
      [] datatype = "Vec3u16" -> 6
      [] datatype = "Vec3f32" -> 12
      [] datatype = "Vec3f64" -> 24

\* uN::from_ne_bytes: the unsigned value of a byte sequence in native order
from_ne_bytes_unsigned(e, bytes) ==
    LET le == IF e = "little" THEN bytes ELSE Reverse(bytes)
    IN  IF Len(le) = 1 THEN le[1] ELSE le[1] + 256 * le[2]

\* iN::from_ne_bytes: the two's complement value of a byte sequence
from_ne_bytes_signed(e, bytes) ==
    LET u == from_ne_bytes_unsigned(e, bytes)
        half == IF Len(bytes) = 1 THEN 128 ELSE 32768
    IN  IF u >= half THEN u - 2 * half ELSE u

\* (v as u32 / v as i32).to_ne_bytes(): the four bytes of a 32-bit value whose
\* mathematical value is v (two's complement for a negative v)
to_ne_bytes_32(e, v) ==
    LET le == <<v % 256, (v \div 256) % 256, (v \div 65536) % 256,
                (v \div 16777216) % 256>>
    IN  IF e = "little" THEN le ELSE Reverse(le)

\* 1.0_f32.to_ne_bytes(): IEEE 754 single 1.0 is 0x3F800000
one_f32_bytes(e) ==
    IF e = "little" THEN <<0, 0, 128, 63>> ELSE <<63, 128, 0, 0>>

\* 1.0_f64.to_ne_bytes(): IEEE 754 double 1.0 is 0x3FF0000000000000
one_f64_bytes(e) ==
    IF e = "little" THEN <<0, 0, 0, 0, 0, 0, 240, 63>> ELSE <<63, 240, 0, 0, 0, 0, 0, 0>>

\* The branches of the match in align_slice, one operator per data type.

\* U8: every byte becomes a u32
align_u8(e, slice) ==
    Concat([i \in 1..Len(slice) |-> to_ne_bytes_32(e, slice[i])])

\* I8: every byte is read as an i8 and becomes an i32
align_i8(e, slice) ==
    Concat([i \in 1..Len(slice) |->
        to_ne_bytes_32(e, from_ne_bytes_signed(e, Slice(slice, i - 1, i)))])

\* U16: every two bytes are read as a u16 and become a u32
align_u16(e, slice) ==
    LET stride == bytes_per_element("U16")
        num_elements == Len(slice) \div stride
    IN  Concat([i \in 1..num_elements |->
            to_ne_bytes_32(e, from_ne_bytes_unsigned(e,
                Slice(slice, (i - 1) * stride, (i - 1) * stride + stride)))])

\* align_i16 reading the element as unsigned (zero-extension)
align_i16_zero_extended(e, slice) ==
    LET stride == bytes_per_element("I16")
        num_elements == Len(slice) \div stride
    IN  Concat([i \in 1..num_elements |->
            to_ne_bytes_32(e, from_ne_bytes_unsigned(e,
                Slice(slice, (i - 1) * stride, (i - 1) * stride + stride)))])

\* I16: every two bytes are read as an i16 and become an i32
align_i16(e, slice) ==
    LET stride == bytes_per_element("I16")
        num_elements == Len(slice) \div stride
    IN  Concat([i \in 1..num_elements |->
            to_ne_bytes_32(e, from_ne_bytes_signed(e,
                Slice(slice, (i - 1) * stride, (i - 1) * stride + stride)))])

\* Bool: every byte becomes a u32
align_bool(e, slice) ==
    Concat([i \in 1..Len(slice) |-> to_ne_bytes_32(e, slice[i])])

\* align_vec3u8 appending 0 instead of 1 as the fourth coordinate
align_vec3u8_zero_w(e, slice) ==
    LET stride == bytes_per_element("Vec3u8")
        num_elements == Len(slice) \div stride
    IN  Concat([i \in 1..num_elements |->
            Concat([j \in 1..3 |->
                to_ne_bytes_32(e, from_ne_bytes_unsigned(e,
                    Slice(slice, (i - 1) * stride + (j - 1),
                                 (i - 1) * stride + (j - 1) + 1)))])
            \o to_ne_bytes_32(e, 0)])

\* Vec3u8: three u8 become three u32, followed by 1_u32
align_vec3u8(e, slice) ==
    LET stride == bytes_per_element("Vec3u8")
        num_elements == Len(slice) \div stride
    IN  Concat([i \in 1..num_elements |->
            Concat([j \in 1..3 |->
                to_ne_bytes_32(e, from_ne_bytes_unsigned(e,
                    Slice(slice, (i - 1) * stride + (j - 1),
                                 (i - 1) * stride + (j - 1) + 1)))])
            \o to_ne_bytes_32(e, 1)])

\* Vec3u16: three u16 become three u32, followed by 1_u32
align_vec3u16(e, slice) ==
    LET stride == bytes_per_element("Vec3u16")
        num_elements == Len(slice) \div stride
    IN  Concat([i \in 1..num_elements |->
            Concat([j \in 1..3 |->
                to_ne_bytes_32(e, from_ne_bytes_unsigned(e,
                    Slice(slice, (i - 1) * stride + (j - 1) * 2,
                                 (i - 1) * stride + (j - 1) * 2 + 2)))])
            \o to_ne_bytes_32(e, 1)])

\* Vec3f32: the bytes of each vector, followed by 1.0_f32
align_vec3f32(e, slice) ==
    LET stride == bytes_per_element("Vec3f32")
        num_elements == Len(slice) \div stride
    IN  Concat([i \in 1..num_elements |->
            Slice(slice, (i - 1) * stride, (i - 1) * stride + stride)
            \o one_f32_bytes(e)])

\* Vec3f64 copied without the fourth component
align_vec3f64_without_w(e, slice) ==
    LET stride == bytes_per_element("Vec3f64")
        num_elements == Len(slice) \div stride
    IN  Concat([i \in 1..num_elements |->
            Slice(slice, (i - 1) * stride, (i - 1) * stride + stride)])

\* Vec3f64: the bytes of each vector, followed by 1.0_f64
align_vec3f64(e, slice) ==
    LET stride == bytes_per_element("Vec3f64")
        num_elements == Len(slice) \div stride
    IN  Concat([i \in 1..num_elements |->
            Slice(slice, (i - 1) * stride, (i - 1) * stride + stride)
            \o one_f64_bytes(e)])

\* the panic missing from the U64 branch
align_panics_only_i64(datatype) == datatype = "I64"

\* The data types whose branch panics
align_panics(datatype) == datatype \in {"U64", "I64"}

\* the fall-through returning a fresh empty vector instead of the copy
align_fallthrough_empty(slice) == <<>>

\* U32, I32, F32, F64: the branch is empty and the match falls through to
\* Vec::from(slice)
align_fallthrough(slice) == slice

\* align_slice: [panic |-> TRUE] when the branch panics, else the bytes returned
align_slice(e, slice, datatype) ==
    IF align_panics(datatype)
    THEN [panic |-> TRUE, bytes |-> <<>>]
    ELSE [panic |-> FALSE,
          bytes |-> CASE datatype = "U8" -> align_u8(e, slice)
                      [] datatype = "I8" -> align_i8(e, slice)
                      [] datatype = "U16" -> align_u16(e, slice)
                      [] datatype = "I16" -> align_i16(e, slice)
                      [] datatype = "Bool" -> align_bool(e, slice)
                      [] datatype = "Vec3u8" -> align_vec3u8(e, slice)
                      [] datatype = "Vec3u16" -> align_vec3u16(e, slice)
                      [] datatype = "Vec3f32" -> align_vec3f32(e, slice)
                      [] datatype = "Vec3f64" -> align_vec3f64(e, slice)
                      [] OTHER -> align_fallthrough(slice)]

\* ---------------------------------------------------------------------------
\* Raw attribute bytes of a point buffer
\* ---------------------------------------------------------------------------

\* The bytes PointBuffer::get_raw_attribute_range(0..len, attribute) delivers
\* for len elements of the data type: len * size bytes, here drawn from the
\* palette by two seeds so that every pair of neighbouring bytes occurs.
RawBytes(datatype, len, s, t) ==
    [k \in 1..(len * bytes_per_element(datatype)) |->
        IF datatype = "Bool"
        THEN (s + t * (k - 1)) % 2
        ELSE Palette[((s + t * (k - 1)) % Len(Palette)) + 1]]

\* ---------------------------------------------------------------------------
\* Specification of realignment: the inputs are drawn at Init, Realign applies
\* align_slice.
\* ---------------------------------------------------------------------------

WriterIdle ==
    /\ w_pc = "idle"
    /\ expected_layout = <<>>
    /\ default_layout = <<>>
    /\ cached_points = <<>>
    /\ w_block = 1
    /\ requires_flush = FALSE
    /\ sink = <<>>
    /\ w_written = <<>>
    /\ w_serialized = 0
    /\ w_calls = 0
    /\ w_failures = 0
    /\ w_last = "none"
    /\ w_arg = <<>>

\* Option::None of Device.bind_group
NoBindGroup == [some |-> FALSE, entries |-> <<>>]

\* No call has been made on the device
NoCalls == [op \in {"upload", "set_compute_shader", "compute", "download"} |-> 0]

DeviceIdle ==
    /\ point_buffer_len = 0
    /\ upload_buffers = <<>>
    /\ download_buffers = <<>>
    /\ buffer_sizes = <<>>
    /\ buffer_bindings = <<>>
    /\ cs_module = "None"
    /\ bind_group = NoBindGroup
    /\ compute_pipeline = "None"
    /\ queue = <<>>
    /\ d_calls = NoCalls
    /\ d_last = [op |-> "idle"]

\* a_result before align_slice has been applied to the current input
NoResult == [done |-> FALSE, panic |-> FALSE, bytes |-> <<>>]

AlignIdle ==
    /\ a_datatype = "U8"
    /\ a_slice = <<>>
    /\ a_result = NoResult

\* Option::None of an 8-byte pattern
NoPattern == [some |-> FALSE, bytes |-> <<>>]

\* The value field of a result that carries no number
NoValue == [family |-> "none", sign |-> 0, exponent |-> 0, digits |-> <<>>]

\* e_result before an accessor has been called
NoCall == [outcome |-> "none", some |-> FALSE, value |-> NoValue]

ExtraIdle ==
    /\ e_record = [data_type |-> "U8", no_data_value |-> NoPattern, min_value |-> NoPattern]
    /\ e_call = "none"
    /\ e_result = NoCall

\* s_read before any read
NoRead == [done |-> FALSE, attribute |-> 0, columnar |-> <<>>, interleaved |-> <<>>]

StorageIdle ==
    /\ s_pc = "idle"
    /\ s_layout = <<>>
    /\ s_points = <<>>
    /\ s_columnar = <<>>
    /\ s_interleaved = <<>>
    /\ s_read = NoRead

InitAlign ==
    /\ endian \in Endians
    /\ \E dt \in DataTypes, n \in 0..MaxElems, s \in 0..MaxSeed, t \in 0..MaxSeed :
          /\ a_datatype = dt
          /\ a_slice = RawBytes(dt, n, s, t)
    /\ a_result = NoResult
    /\ WriterIdle
    /\ DeviceIdle
    /\ ExtraIdle
    /\ StorageIdle

Realign ==
    /\ ~a_result.done
    /\ a_result' = [done |-> TRUE] @@ align_slice(endian, a_slice, a_datatype)
    /\ UNCHANGED <<endian, a_datatype, a_slice, writerVars, deviceVars, extraVars,
                   storageVars>>

NextAlign == Realign

SpecAlign == InitAlign /\ [][NextAlign]_vars

\* ---------------------------------------------------------------------------
\* PntsWriter
\* ---------------------------------------------------------------------------

PNTS_SEMANTICS_MAX_ALIGNMENT == 8
PNTS_VERSION == 1

\* Names of the builtin attributes POSITION_3D, COLOR_RGB and NORMAL and of one
\* attribute the .pnts format has no semantic for
POSITION_3D == "Position3D"
COLOR_RGB == "ColorRGB"
NORMAL == "Normal"
INTENSITY == "Intensity"

Attr(name, datatype) == [name |-> name, datatype |-> datatype]

\* PointAttributeDataType::size: the byte width of one element
attribute_size(datatype) ==
    CASE datatype \in {"U8", "I8", "Bool"} -> 1
      [] datatype \in {"U16", "I16"} -> 2
      [] datatype \in {"U32", "I32", "F32"} -> 4
      [] datatype \in {"U64", "I64", "F64"} -> 8
      [] datatype = "Vec3u8" -> 3
      [] datatype = "Vec3u16" -> 6
      [] datatype = "Vec3f32" -> 12
      [] datatype = "Vec3f64" -> 24

\* Alignable::align_to: n rounded up to a multiple of alignment
align_to(n, alignment) == ((n + alignment - 1) \div alignment) * alignment

\* PointLayout::get_attribute_by_name: the attributes of that name (at most one)
get_attribute_by_name(layout, name) ==
    {layout[i] : i \in {j \in 1..Len(layout) : layout[j].name = name}}

\* PointLayout::has_attribute: name and data type both occur
has_attribute(layout, attribute) ==
    \E i \in 1..Len(layout) : layout[i] = attribute

\* The point layouts a writer is constructed with
Layouts ==
    { <<Attr(POSITION_3D, "Vec3f32"), Attr(COLOR_RGB, "Vec3u8"), Attr(NORMAL, "Vec3f32")>>,
      <<Attr(POSITION_3D, "Vec3f32"), Attr(INTENSITY, "U16")>>,
      <<Attr(COLOR_RGB, "Vec3u8"), Attr(POSITION_3D, "Vec3f32")>>,
      <<Attr(POSITION_3D, "Vec3f64"), Attr(COLOR_RGB, "Vec3u16")>>,
      <<Attr(POSITION_3D, "Vec3f32"), Attr(COLOR_RGB, "Vec3f32")>>,
      <<Attr(INTENSITY, "U16")>> }

\* A layout no writer is constructed with: the layout of a foreign buffer
ForeignLayout == <<Attr(NORMAL, "Vec3f32"), Attr(INTENSITY, "U16")>>

supported_attributes ==
    <<Attr(POSITION_3D, "Vec3f32"), Attr(COLOR_RGB, "Vec3u8"), Attr(NORMAL, "Vec3f32")>>

\* make_compatible_layout: the supported attributes whose name occurs in the
\* layout, in the order of supported_attributes, each with its .pnts data type
RECURSIVE compatible_from(_, _)
compatible_from(point_layout, supported) ==
    IF supported = <<>> THEN <<>>
    ELSE (IF get_attribute_by_name(point_layout, Head(supported).name) # {}
          THEN <<Head(supported)>> ELSE <<>>)
         \o compatible_from(point_layout, Tail(supported))

\* The supported attributes whose name occurs in the layout, each left with
\* the data type it has in the layout
make_compatible_layout_keeping_types(point_layout) ==
    SelectSeq(point_layout,
              LAMBDA a : \E i \in 1..Len(supported_attributes) :
                            supported_attributes[i].name = a.name)

make_compatible_layout(point_layout) == compatible_from(point_layout, supported_attributes)

\* The (source type, destination type) pairs a conversion function is named
\* for: a u8 vector to an f32 vector, and u16 widened to u32
SupportedConversions == {<<"Vec3u8", "Vec3f32">>, <<"U16", "U32">>}

\* get_converter_for_attributes: "Some" for a conversion function, "None" when
\* the data types are equal (no function is needed) and when the pair is
\* unsupported (no conversion available)
get_converter_for_attributes(from, to) ==
    IF from.datatype # to.datatype /\ <<from.datatype, to.datatype>> \in SupportedConversions
    THEN "Some" ELSE "None"

\* make_compatible_layout, its second result: the converter registered for
\* each supported attribute whose name occurs in the layout. An attribute stored
\* as Vec3f32 is registered without a lookup.
conversion_fns(point_layout) ==
    [name \in {supported_attributes[i].name : i \in
                  {j \in 1..Len(supported_attributes) :
                     get_attribute_by_name(point_layout, supported_attributes[j].name) # {}}} |->
        LET src_attribute == CHOOSE a \in get_attribute_by_name(point_layout, name) : TRUE
            target_attribute ==
                CHOOSE a \in get_attribute_by_name(supported_attributes, name) : TRUE
        IN  IF src_attribute.datatype = "Vec3f32" THEN "None"
            ELSE get_converter_for_attributes(src_attribute, target_attribute)]

\* make_compatible_layout: the supported attributes of the layout for which
\* get_converter_for_attributes is called, which are those not stored as Vec3f32
converter_lookups(point_layout) ==
    {supported_attributes[i].name : i \in
        {j \in 1..Len(supported_attributes) :
            \E src_attribute \in get_attribute_by_name(point_layout,
                                                         supported_attributes[j].name) :
               src_attribute.datatype # "Vec3f32"}}

\* PntsWriter.attribute_converters: set by from_write_and_layout, never changed
attribute_converters == conversion_fns(expected_layout)

\* A naming of the semantics that does not tell the normal from the position
pnts_semantics_name_without_normal(attribute) ==
    IF attribute.name = COLOR_RGB THEN "RGB" ELSE "POSITION"

\* pnts_semantics_name_from_point_attribute
pnts_semantics_name_from_point_attribute(attribute) ==
    IF attribute.name = POSITION_3D THEN "POSITION"
    ELSE IF attribute.name = COLOR_RGB THEN "RGB"
    ELSE IF attribute.name = NORMAL THEN "NORMAL"
    ELSE "None"

\* The layout of PntsWriter.cached_points: from_write_and_layout builds the
\* cache with point_layout.clone()
cache_layout == expected_layout

\* ---- byte counts (usize). They pass 2^32, so a count is kept as two digits
\* of base 2^16: the count is hi * 2^16 + lo with lo < 2^16.
Limb == 65536

ToBig(n) == [hi |-> n \div Limb, lo |-> n % Limb]

BigAdd(a, b) ==
    [hi |-> a.hi + b.hi + ((a.lo + b.lo) \div Limb), lo |-> (a.lo + b.lo) % Limb]

\* a * k for a small factor k
BigMul(a, k) ==
    [hi |-> a.hi * k + ((a.lo * k) \div Limb), lo |-> (a.lo * k) % Limb]

RECURSIVE BigSum(_)
BigSum(s) == IF s = <<>> THEN ToBig(0) ELSE BigAdd(Head(s), BigSum(Tail(s)))

\* Alignable::align_to on a byte count: a rounded up to a multiple of
\* alignment (alignment divides 2^16)
big_align_to(a, alignment) ==
    BigAdd(a, ToBig(align_to(a.lo, alignment) - a.lo))

\* usize -> u32 of TryInto: the conversion succeeds
fits_u32(a) == a.hi < Limb

\* self.cached_points.len()
num_points == BigMul(ToBig(w_block), Len(cached_points))

\* attribute.size() as usize * num_points
blob_size(attribute) == BigMul(num_points, attribute_size(attribute.datatype))

\* calc_feature_table_body_length
calc_feature_table_body_length ==
    BigSum([i \in 1..Len(default_layout) |->
        big_align_to(blob_size(default_layout[i]), PNTS_SEMANTICS_MAX_ALIGNMENT)])

\* Offsets that add up the attribute regions without rounding their lengths
cumulative_attribute_offset_unaligned(idx) ==
    BigSum([i \in 1..(idx - 1) |-> blob_size(default_layout[i])])

\* create_feature_table: the byte offset of the idx-th attribute (idx from 1)
cumulative_attribute_offset(idx) ==
    BigSum([i \in 1..(idx - 1) |->
        big_align_to(blob_size(default_layout[i]), PNTS_SEMANTICS_MAX_ALIGNMENT)])

\* create_feature_table: the semantics of the header
create_feature_table ==
    [references |->
        {[semantic |-> pnts_semantics_name_from_point_attribute(default_layout[i]),
          byte_offset |-> cumulative_attribute_offset(i)] : i \in 1..Len(default_layout)},
     POINTS_LENGTH |-> num_points]

\* The sink operations of write_feature_table_body for one attribute: the
\* attribute data, then the padding if there is any. The data is read from the
\* cache with get_raw_attribute_range_ref, which aborts when the cache's layout
\* does not have the attribute.
attribute_ops(attribute, blob_byte_size, num_padding_bytes) ==
    IF ~has_attribute(cache_layout, attribute)
    THEN <<[kind |-> "abort"]>>
    ELSE <<[kind |-> "attribute", name |-> attribute.name,
            points |-> cached_points, bytes |-> blob_byte_size]>>
         \o (IF num_padding_bytes # 0
             THEN <<[kind |-> "padding", bytes |-> ToBig(num_padding_bytes)]>>
             ELSE <<>>)

\* blob_byte_size.align_to(PNTS_SEMANTICS_MAX_ALIGNMENT) - blob_byte_size
padding_of(blob_byte_size) ==
    align_to(blob_byte_size.lo, PNTS_SEMANTICS_MAX_ALIGNMENT) - blob_byte_size.lo

body_ops_of(attribute) ==
    attribute_ops(attribute, blob_size(attribute), padding_of(blob_size(attribute)))

write_feature_table_body_ops ==
    Concat([i \in 1..Len(default_layout) |-> body_ops_of(default_layout[i])])

\* PntsHeader::BYTE_LENGTH: version, total byte length and the four section
\* lengths, each a u32
PntsHeader_BYTE_LENGTH == 6 * 4

\* feature_table_blob.len() and batch_table_blob.len(): the lengths of the
\* blobs that ser_feature_table_header and ser_batch_table_header leave in
\* memory. The encoders determine them from the header; the model takes a few
\* bytes per entry.
feature_table_blob_len(table) == 8 * (2 + 3 * Cardinality(table.references))
batch_table_blob_len == 8

\* write_cached_points: the byte lengths handed to PntsHeader::new
header_sizes ==
    [total_byte_length |->
        BigSum(<<ToBig(PntsHeader_BYTE_LENGTH),
                 ToBig(feature_table_blob_len(create_feature_table)),
                 calc_feature_table_body_length,
                 ToBig(batch_table_blob_len),
                 ToBig(0)>>),
     feature_table_byte_size |-> ToBig(feature_table_blob_len(create_feature_table)),
     feature_table_body_byte_size |-> calc_feature_table_body_length,
     batch_table_byte_size |-> ToBig(batch_table_blob_len),
     batch_table_body_byte_size |-> ToBig(0)]

\* A conversion of the lengths that leaves out the total byte length
sizes_fit_without_total(sizes) ==
    /\ fits_u32(sizes.feature_table_byte_size)
    /\ fits_u32(sizes.feature_table_body_byte_size)
    /\ fits_u32(sizes.batch_table_byte_size)
    /\ fits_u32(sizes.batch_table_body_byte_size)

\* write_cached_points: every try_into() of the lengths succeeds
sizes_fit(sizes) ==
    /\ fits_u32(sizes.total_byte_length)
    /\ fits_u32(sizes.feature_table_byte_size)
    /\ fits_u32(sizes.feature_table_body_byte_size)
    /\ fits_u32(sizes.batch_table_byte_size)
    /\ fits_u32(sizes.batch_table_body_byte_size)

\* The bytes bincode::serialize_into writes for a PntsHeader: its fields, each
\* in fixed width
pnts_header_blob_len == PntsHeader_BYTE_LENGTH

\* self.writer.write(blob), whose return value is dropped: the number of bytes
\* of a blob of len bytes the sink took. Write::write may take a part of the
\* blob only; a short write is taken as one that leaves out the last byte.
write_taken(len, short) == IF short THEN len - 1 ELSE len

\* The chunks the header writes put into the sink, each with the number of
\* bytes the sink took
pnts_header_chunk ==
    [kind |-> "pnts_header", version |-> PNTS_VERSION, sizes |-> header_sizes,
     bytes |-> ToBig(pnts_header_blob_len)]

feature_table_header_chunk(table, short) ==
    [kind |-> "feature_table_header", table |-> table, short |-> short,
     bytes |-> ToBig(write_taken(feature_table_blob_len(table), short))]

batch_table_header_chunk(short) ==
    [kind |-> "batch_table_header", short |-> short,
     bytes |-> ToBig(write_taken(batch_table_blob_len, short))]

\* The operations on the sink with the feature-table header after the body
write_cached_points_ops_body_first(short_ft, short_bt) ==
    <<pnts_header_chunk>>
    \o write_feature_table_body_ops
    \o <<feature_table_header_chunk(create_feature_table, short_ft)>>
    \o <<batch_table_header_chunk(short_bt)>>

\* write_cached_points: the operations on the sink in program order. short
\* says whether Write::write took only a part of the header blob.
write_cached_points_ops(short_ft, short_bt) ==
    <<pnts_header_chunk>>
    \o <<feature_table_header_chunk(create_feature_table, short_ft)>>
    \o write_feature_table_body_ops
    \o <<batch_table_header_chunk(short_bt)>>

\* The first position of ops that holds an abort, or Len(ops) + 1
RECURSIVE first_abort(_, _)
first_abort(ops, i) ==
    IF i > Len(ops) THEN i
    ELSE IF ops[i].kind = "abort" THEN i ELSE first_abort(ops, i + 1)

\* The outcome of write_cached_points when the sink fails at its fail-th
\* operation (0: the sink never fails): what reached the sink and how the
\* function ended. The headers are serialized into memory first ("err" when
\* that fails), then the lengths are converted to u32 (a panic when one does
\* not fit), then the sink is written.
write_ops(ops, abort_at, fail) ==
    [written |-> SubSeq(ops, 1, (IF fail # 0 /\ fail < abort_at THEN fail ELSE abort_at) - 1),
     outcome |-> IF fail # 0 /\ fail < abort_at /\ fail <= Len(ops) THEN "err"
                 ELSE IF abort_at <= Len(ops) THEN "panic"
                 ELSE "ok"]

write_from(ops, fail) == write_ops(ops, first_abort(ops, 1), fail)

write_cached_points(env) ==
    IF env.ser_fails
    THEN [written |-> <<>>, outcome |-> "err"]
    ELSE IF ~sizes_fit(header_sizes)
    THEN [written |-> <<>>, outcome |-> "panic"]
    ELSE write_from(write_cached_points_ops(env.short_ft, env.short_bt), env.fail)

\* The ways the environment can make one write_cached_points run go: the sink
\* fails at none (0) or at one of the operations, a header serialization fails
\* or not, and Write::write takes the header blobs whole or in part. A choice
\* that cannot show in the run (a short write after the failure) is left out.
SinkBehaviours ==
    [fail : {0}, ser_fails : {FALSE}, short_ft : BOOLEAN, short_bt : BOOLEAN]
    \cup [fail : {0}, ser_fails : {TRUE}, short_ft : {FALSE}, short_bt : {FALSE}]
    \cup [fail : 1..Len(write_cached_points_ops(FALSE, FALSE)), ser_fails : {FALSE},
          short_ft : BOOLEAN, short_bt : {FALSE}]

\* The behaviour makes the run return an error
Failing(env) == env.fail # 0 \/ env.ser_fails

\* PntsWriter::get_default_point_layout
get_default_point_layout == default_layout

\* ---- bounds of the writer specification
MaxCalls == 3
MaxWritePoints == 1
MaxFailures == 1

\* The number of points one element of cached_points stands for: the buffers
\* passed to write() hold single points or runs of that many points
BlockSizes == {1, 178956970}

\* Points are numbered in the order they are passed to write()
NewPoints(n) == [i \in 1..n |-> Len(w_written) + i]

InitWriter ==
    /\ endian = "little"
    /\ AlignIdle
    /\ DeviceIdle
    /\ ExtraIdle
    /\ StorageIdle
    /\ w_pc = "open"
    /\ expected_layout \in Layouts
    /\ default_layout = make_compatible_layout(expected_layout)
    /\ cached_points = <<>>
    /\ w_block \in BlockSizes
    /\ requires_flush = TRUE
    /\ sink = <<>>
    /\ w_written = <<>>
    /\ w_serialized = 0
    /\ w_calls = 0
    /\ w_failures = 0
    /\ w_last = "new"
    /\ w_arg = <<>>

\* What the calls on the writer leave alone
WriterFrame == UNCHANGED <<endian, w_block, alignVars, deviceVars, extraVars, storageVars>>

\* A write() that keeps only the points of the buffer passed last
write_replacing_cache(n) ==
    /\ w_pc = "open"
    /\ w_calls < MaxCalls
    /\ cached_points' = NewPoints(n)
    /\ w_written' = w_written \o NewPoints(n)
    /\ w_calls' = w_calls + 1
    /\ w_last' = "write_ok"
    /\ w_arg' = expected_layout
    /\ UNCHANGED <<w_pc, expected_layout, default_layout, requires_flush, sink,
                   w_serialized, w_failures>>
    /\ WriterFrame

\* PntsWriter::write with a buffer of n points of the expected layout. The
\* layout of the cache is the expected layout, so the buffer is pushed.
write(n) ==
    /\ w_pc = "open"
    /\ w_calls < MaxCalls
    /\ cached_points' = cached_points \o NewPoints(n)
    /\ w_written' = w_written \o NewPoints(n)
    /\ w_calls' = w_calls + 1
    /\ w_last' = "write_ok"
    /\ w_arg' = expected_layout
    /\ UNCHANGED <<w_pc, expected_layout, default_layout, requires_flush, sink,
                   w_serialized, w_failures>>
    /\ WriterFrame

\* A write() that takes a buffer of another layout as it takes one of the
\* expected layout
write_mismatch_accepted ==
    /\ w_pc = "open"
    /\ w_calls < MaxCalls
    /\ ForeignLayout # expected_layout
    /\ cached_points' = cached_points \o NewPoints(1)
    /\ w_written' = w_written \o NewPoints(1)
    /\ w_calls' = w_calls + 1
    /\ w_last' = "write_ok"
    /\ w_arg' = ForeignLayout
    /\ UNCHANGED <<w_pc, expected_layout, default_layout, requires_flush, sink,
                   w_serialized, w_failures>>
    /\ WriterFrame

\* PntsWriter::write with a buffer of another layout: panics
write_mismatch ==
    /\ w_pc = "open"
    /\ w_calls < MaxCalls
    /\ ForeignLayout # expected_layout
    /\ w_pc' = "unwinding"
    /\ w_calls' = w_calls + 1
    /\ w_last' = "write_panic"
    /\ w_arg' = ForeignLayout
    /\ UNCHANGED <<expected_layout, default_layout, cached_points, requires_flush,
                   sink, w_written, w_serialized, w_failures>>
    /\ WriterFrame

\* flush() serializing whether or not the cache was serialized before
flush_ignoring_requires_flush(env) ==
    [ran |-> TRUE] @@ write_cached_points(env)

\* PntsWriter::flush, as a function of the state: its effect on the sink
flush(env) ==
    IF ~requires_flush
    THEN [written |-> <<>>, outcome |-> "ok", ran |-> FALSE]
    ELSE [ran |-> TRUE] @@ write_cached_points(env)

\* What a flush() that went as r leaves behind in the writer and the sink
FlushEffect(r) ==
    /\ sink' = sink \o r.written
    /\ requires_flush' = IF r.ran /\ r.outcome = "ok" THEN FALSE ELSE requires_flush
    /\ w_serialized' = IF r.ran /\ r.outcome = "ok" THEN w_serialized + 1
                       ELSE w_serialized
    /\ w_failures' = IF r.ran /\ r.outcome = "err" THEN w_failures + 1
                     ELSE w_failures

\* The caller's side of an explicit flush() that went as r: a panic unwinds
Flushed(r) ==
    /\ FlushEffect(r)
    /\ w_pc' = IF r.outcome = "panic" THEN "unwinding" ELSE "open"
    /\ w_last' = "flush_" \o r.outcome

\* A drop() that ignores the Result of its flush()
Dropped_ignoring_result(r) ==
    /\ FlushEffect(r)
    /\ w_pc' = IF r.outcome \in {"ok", "err"} THEN "dropped"
               ELSE IF w_pc = "unwinding" THEN "aborted" ELSE "panicked"
    /\ w_last' = "drop_" \o r.outcome

\* drop() with a flush() that went as r: expect() panics on an error, and a
\* panic while another panic unwinds aborts the process
Dropped(r) ==
    /\ FlushEffect(r)
    /\ w_pc' = IF r.outcome = "ok" THEN "dropped"
               ELSE IF w_pc = "unwinding" THEN "aborted" ELSE "panicked"
    /\ w_last' = "drop_" \o r.outcome

\* An explicit call of PntsWriter::flush
Flush ==
    /\ w_pc = "open"
    /\ w_calls < MaxCalls
    /\ \E env \in SinkBehaviours :
          /\ Failing(env) => w_failures < MaxFailures
          /\ Flushed(flush(env))
    /\ w_calls' = w_calls + 1
    /\ UNCHANGED <<expected_layout, default_layout, cached_points, w_written, w_arg>>
    /\ WriterFrame

\* Drop for PntsWriter: self.flush().expect(..), at the end of the writer's
\* scope or while a panic of write() or flush() unwinds
Drop ==
    /\ w_pc \in {"open", "unwinding"}
    /\ \E env \in SinkBehaviours :
          /\ Failing(env) => w_failures < MaxFailures
          /\ Dropped(flush(env))
    /\ UNCHANGED <<expected_layout, default_layout, cached_points, w_written, w_calls,
                   w_arg>>
    /\ WriterFrame

NextWriter ==
    \/ \E n \in 0..MaxWritePoints : write(n)
    \/ write_mismatch
    \/ Flush
    \/ Drop

SpecWriter == InitWriter /\ [][NextWriter]_vars

\* ---- reading a container back (PntsReader): the header, then the
\* feature-table header of the declared length, then the feature-table body,
\* from which each data reference of the header is resolved

\* The byte offset within the body at which the k-th chunk of the body starts
body_offset(body, k) == BigSum([j \in 1..(k - 1) |-> body[j].bytes])

\* The attribute of the .pnts format a semantic of the header stands for
attribute_of_semantic(semantic) ==
    CHOOSE a \in {supported_attributes[i] : i \in 1..Len(supported_attributes)} :
        pnts_semantics_name_from_point_attribute(a) = semantic

\* What is read where no attribute region starts: no point has the number 0
Unreadable == <<0>>

\* The values read for one data reference: the points of the attribute region
\* that starts at the referenced offset and holds the bytes of count values;
\* Unreadable when the offset addresses anything else
resolve_reference(body, reference, count) ==
    LET attribute == attribute_of_semantic(reference.semantic)
        at == {k \in 1..Len(body) :
                  /\ body_offset(body, k) = reference.byte_offset
                  /\ body[k].kind = "attribute"
                  /\ body[k].name = attribute.name
                  /\ body[k].bytes = BigMul(count, attribute_size(attribute.datatype))}
    IN  IF at = {} THEN Unreadable ELSE body[CHOOSE k \in at : TRUE].points

\* The layout of the points read: the semantics of the header in the order
\* position, color, normal
layout_of_table(table) ==
    SelectSeq(supported_attributes,
              LAMBDA a : \E r \in table.references :
                            r.semantic = pnts_semantics_name_from_point_attribute(a))

\* What no container can be read from
Undecodable == [ok |-> FALSE, layout |-> <<>>, POINTS_LENGTH |-> ToBig(0), values |-> {}]

\* The points read from a stream of chunks
decode(stream) ==
    IF \/ Len(stream) < 2
       \/ stream[1].kind # "pnts_header"
       \/ stream[1].bytes # ToBig(pnts_header_blob_len)
       \/ stream[2].kind # "feature_table_header"
       \/ stream[2].bytes # stream[1].sizes.feature_table_byte_size
    THEN Undecodable
    ELSE LET table == stream[2].table
             body == SelectSeq(SubSeq(stream, 3, Len(stream)),
                               LAMBDA c : c.kind \in {"attribute", "padding"})
         IN  IF BigSum([k \in 1..Len(body) |-> body[k].bytes])
                   # stream[1].sizes.feature_table_body_byte_size
             THEN Undecodable
             ELSE [ok |-> TRUE,
                   layout |-> layout_of_table(table),
                   POINTS_LENGTH |-> table.POINTS_LENGTH,
                   values |-> {[name |-> attribute_of_semantic(r.semantic).name,
                                points |-> resolve_reference(body, r, table.POINTS_LENGTH)] :
                                  r \in table.references}]

\* ---------------------------------------------------------------------------
\* Device
\* ---------------------------------------------------------------------------

\* ---- bounds of the device specification
MaxDevPoints == 2
MaxDeviceCalls == 4
MaxMapFailures == 1

\* BufferInfo: an attribute of the point buffer and a shader binding
BufferInfo(attribute, binding) == [attribute |-> attribute, binding |-> binding]

\* The buffer_infos of the upload() calls: a signed scalar and a vector with
\* binding indices of the caller's choice, alone, together in either order,
\* and followed or replaced by a 64-bit integer
Requests ==
    { <<BufferInfo(Attr("ScanAngle", "I16"), 6)>>,
      <<BufferInfo(Attr("MyVec3U8", "Vec3u8"), 3), BufferInfo(Attr("ScanAngle", "I16"), 6)>>,
      <<BufferInfo(Attr("ScanAngle", "I16"), 2), BufferInfo(Attr("MyVec3U8", "Vec3u8"), 0)>>,
      <<BufferInfo(Attr("MyVec3U8", "Vec3u8"), 3), BufferInfo(Attr("PointSourceID", "U64"), 4)>>,
      <<BufferInfo(Attr("GpsTicks", "I64"), 9)>> }

\* A byte of a buffer nothing has been written to yet
UNSPECIFIED == -1

\* The compute shader sources handed to set_compute_shader: one that compiles
\* and one that does not
ShaderSources == {"device.comp", "broken.comp"}

\* What the shader program does to the buffers bound to it
ShaderEffects == {"reads", "writes"}

\* The contents of a storage buffer after a dispatch whose shader wrote to it
shader_write(contents) == [k \in 1..Len(contents) |-> 255 - contents[k]]

\* PointBuffer::get_raw_attribute_range(0..len, attribute): the bytes of the
\* attribute for the len points of the buffer
get_raw_attribute_range(len, attribute) ==
    RawBytes(attribute.datatype, len, len, 1)

\* upload_one sizing the buffers by the bytes read, before realignment
upload_one_unaligned_size(dev, len, info) ==
    LET num_bytes == bytes_per_element(info.attribute.datatype)
        bytes_to_write == get_raw_attribute_range(len, info.attribute)
        aligned == align_slice(endian, bytes_to_write, info.attribute.datatype)
        size_in_bytes == Len(bytes_to_write)
    IN  IF aligned.panic
        THEN [dev EXCEPT !.panic = TRUE]
        ELSE [dev EXCEPT
                 !.buffer_sizes = Append(@, size_in_bytes),
                 !.upload_buffers = Append(@,
                     [id |-> 2 * Len(dev.upload_buffers) + 1,
                      attribute |-> info.attribute,
                      contents |-> aligned.bytes]),
                 !.download_buffers = Append(@,
                     [id |-> 2 * Len(dev.upload_buffers) + 2,
                      size |-> size_in_bytes,
                      contents |-> [k \in 1..size_in_bytes |-> UNSPECIFIED]]),
                 !.buffer_bindings = Append(@, info.binding)]

\* upload_one sizing the download buffer by the bytes read from the point
\* buffer instead of the realigned bytes
upload_one_download_sized_by_input(dev, len, info) ==
    LET num_bytes == bytes_per_element(info.attribute.datatype)
        bytes_to_write == get_raw_attribute_range(len, info.attribute)
        aligned == align_slice(endian, bytes_to_write, info.attribute.datatype)
        size_in_bytes == Len(aligned.bytes)
    IN  IF aligned.panic
        THEN [dev EXCEPT !.panic = TRUE]
        ELSE [dev EXCEPT
                 !.buffer_sizes = Append(@, size_in_bytes),
                 !.upload_buffers = Append(@,
                     [id |-> 2 * Len(dev.upload_buffers) + 1,
                      attribute |-> info.attribute,
                      contents |-> aligned.bytes]),
                 !.download_buffers = Append(@,
                     [id |-> 2 * Len(dev.upload_buffers) + 2,
                      size |-> len * num_bytes,
                      contents |-> [k \in 1..(len * num_bytes) |-> UNSPECIFIED]]),
                 !.buffer_bindings = Append(@, info.binding)]

\* upload_one recording the binding index before the bytes are realigned, so
\* that the binding of a 64-bit integer attribute stays registered
upload_one_binding_first(dev, len, info) ==
    LET num_bytes == bytes_per_element(info.attribute.datatype)
        bytes_to_write == get_raw_attribute_range(len, info.attribute)
        aligned == align_slice(endian, bytes_to_write, info.attribute.datatype)
        size_in_bytes == Len(aligned.bytes)
    IN  IF aligned.panic
        THEN [dev EXCEPT !.panic = TRUE,
                         !.buffer_bindings = Append(@, info.binding)]
        ELSE [dev EXCEPT
                 !.buffer_sizes = Append(@, size_in_bytes),
                 !.upload_buffers = Append(@,
                     [id |-> 2 * Len(dev.upload_buffers) + 1,
                      attribute |-> info.attribute,
                      contents |-> aligned.bytes]),
                 !.download_buffers = Append(@,
                     [id |-> 2 * Len(dev.upload_buffers) + 2,
                      size |-> size_in_bytes,
                      contents |-> [k \in 1..size_in_bytes |-> UNSPECIFIED]]),
                 !.buffer_bindings = Append(@, info.binding)]

\* One iteration of the loop of upload(): the lists of the device after
\* info has been processed, or the panic of align_slice
upload_one(dev, len, info) ==
    LET num_bytes == bytes_per_element(info.attribute.datatype)
        bytes_to_write == get_raw_attribute_range(len, info.attribute)
        aligned == align_slice(endian, bytes_to_write, info.attribute.datatype)
        size_in_bytes == Len(aligned.bytes)
    IN  IF aligned.panic
        THEN [dev EXCEPT !.panic = TRUE]
        ELSE [dev EXCEPT
                 !.buffer_sizes = Append(@, size_in_bytes),
                 !.upload_buffers = Append(@,
                     [id |-> 2 * Len(dev.upload_buffers) + 1,
                      attribute |-> info.attribute,
                      contents |-> aligned.bytes]),
                 !.download_buffers = Append(@,
                     [id |-> 2 * Len(dev.upload_buffers) + 2,
                      size |-> size_in_bytes,
                      contents |-> [k \in 1..size_in_bytes |-> UNSPECIFIED]]),
                 !.buffer_bindings = Append(@, info.binding)]

\* The loop of upload() over buffer_infos, left at the first panic
RECURSIVE upload_loop(_, _, _)
upload_loop(dev, len, buffer_infos) ==
    IF buffer_infos = <<>> \/ dev.panic THEN dev
    ELSE upload_loop(upload_one(dev, len, Head(buffer_infos)), len, Tail(buffer_infos))

\* The four lists of the device, as upload() works on them
DeviceLists ==
    [upload_buffers |-> upload_buffers, download_buffers |-> download_buffers,
     buffer_sizes |-> buffer_sizes, buffer_bindings |-> buffer_bindings,
     panic |-> FALSE]

\* The record of a call: its inputs and its outcome
Call(op, outcome, infos, len, failed, result) ==
    [op |-> op, outcome |-> outcome, infos |-> infos, len |-> len,
     failed |-> failed, result |-> result, groups |-> <<>>]

\* The record of a compute(x, y, z) call
ComputeCall(outcome, x, y, z) ==
    [Call("compute", outcome, <<>>, 0, {}, <<>>) EXCEPT !.groups = <<x, y, z>>]

\* Number of calls made so far
Calls == d_calls["upload"] + d_calls["set_compute_shader"] + d_calls["compute"]
           + d_calls["download"]

\* d_calls after one more call of the kind
Counted(op) == [d_calls EXCEPT ![op] = @ + 1]

InitDevice ==
    /\ endian = "little"
    /\ AlignIdle
    /\ WriterIdle
    /\ ExtraIdle
    /\ StorageIdle
    /\ point_buffer_len \in 1..MaxDevPoints
    /\ upload_buffers = <<>>
    /\ download_buffers = <<>>
    /\ buffer_sizes = <<>>
    /\ buffer_bindings = <<>>
    /\ cs_module = "None"
    /\ bind_group = NoBindGroup
    /\ compute_pipeline = "None"
    /\ queue = <<>>
    /\ d_calls = NoCalls
    /\ d_last = Call("new", "ok", <<>>, 0, {}, <<>>)

\* The device is usable as long as no call has panicked
DeviceLive == d_last.outcome = "ok" /\ Calls < MaxDeviceCalls

\* What the calls on the device leave alone
DeviceFrame ==
    UNCHANGED <<endian, alignVars, writerVars, extraVars, storageVars, point_buffer_len>>

\* Device::upload
upload(buffer_infos) ==
    /\ DeviceLive
    /\ LET after == upload_loop(DeviceLists, point_buffer_len, buffer_infos)
       IN  /\ upload_buffers' = after.upload_buffers
           /\ download_buffers' = after.download_buffers
           /\ buffer_sizes' = after.buffer_sizes
           /\ buffer_bindings' = after.buffer_bindings
           /\ d_last' = Call("upload", IF after.panic THEN "panic" ELSE "ok",
                             buffer_infos, point_buffer_len, {}, <<>>)
    /\ d_calls' = Counted("upload")
    /\ UNCHANGED <<cs_module, bind_group, compute_pipeline, queue>>
    /\ DeviceFrame

\* Device::create_compute_pipeline: the entries of the bind group, one per
\* element of buffer_bindings
create_compute_pipeline ==
    [i \in 1..Len(buffer_bindings) |->
        [binding |-> buffer_bindings[i],
         resource |-> upload_buffers[i].id,
         read_only |-> FALSE]]

\* Device::set_compute_shader
set_compute_shader(compute_shader_src) ==
    /\ DeviceLive
    /\ IF compute_shader_src = "broken.comp"
       THEN /\ d_last' = Call("set_compute_shader", "panic", <<>>, 0, {}, <<>>)
            /\ UNCHANGED <<cs_module, bind_group, compute_pipeline>>
       ELSE /\ cs_module' = compute_shader_src
            /\ bind_group' = [some |-> TRUE, entries |-> create_compute_pipeline]
            /\ compute_pipeline' = compute_shader_src
            /\ d_last' = Call("set_compute_shader", "ok", <<>>, 0, {}, <<>>)
    /\ d_calls' = Counted("set_compute_shader")
    /\ UNCHANGED <<upload_buffers, download_buffers, buffer_sizes, buffer_bindings, queue>>
    /\ DeviceFrame

\* Copies recorded only for the upload buffers the bind group refers to
copy_commands_of_bound_buffers ==
    LET bound == {bind_group.entries[i].resource : i \in 1..Len(bind_group.entries)}
        copies == [i \in 1..Len(upload_buffers) |->
                      [op |-> "copy_buffer_to_buffer", source |-> upload_buffers[i].id,
                       destination |-> download_buffers[i].id, size |-> buffer_sizes[i]]]
    IN  SelectSeq(copies, LAMBDA c : c.source \in bound)

\* The commands compute() records after the dispatch: one copy per upload buffer
copy_commands ==
    [i \in 1..Len(upload_buffers) |->
        [op |-> "copy_buffer_to_buffer", source |-> upload_buffers[i].id,
         destination |-> download_buffers[i].id, size |-> buffer_sizes[i]]]

\* The buffers the entries of the bound bind group refer to
BoundBuffers == {bind_group.entries[i].resource : i \in 1..Len(bind_group.entries)}

\* A compute() that takes the pipeline and the bind group as they are
pipeline_missing_unchecked == FALSE

\* compute(): self.compute_pipeline.as_ref().unwrap() or
\* self.bind_group.as_ref().unwrap() panics on None
pipeline_missing == compute_pipeline = "None" \/ ~bind_group.some

\* Device::compute, with the execution of the submitted batch by the GPU
compute(x, y, z, effect) ==
    /\ DeviceLive
    /\ IF pipeline_missing
       THEN /\ d_last' = ComputeCall("panic", x, y, z)
            /\ UNCHANGED <<upload_buffers, download_buffers, queue>>
       ELSE LET executed ==
                    [i \in 1..Len(upload_buffers) |->
                        IF effect = "writes" /\ upload_buffers[i].id \in BoundBuffers
                        THEN [upload_buffers[i] EXCEPT !.contents = shader_write(@)]
                        ELSE upload_buffers[i]]
            IN  /\ queue' = Append(queue,
                       <<[op |-> "dispatch", x |-> x, y |-> y, z |-> z,
                          pipeline |-> compute_pipeline, bind_group |-> bind_group.entries]>>
                       \o copy_commands)
                /\ upload_buffers' = executed
                /\ download_buffers' =
                       [i \in 1..Len(download_buffers) |->
                           IF i <= Len(upload_buffers)
                           THEN [download_buffers[i] EXCEPT
                                    !.contents = SubSeq(executed[i].contents, 1, buffer_sizes[i])]
                           ELSE download_buffers[i]]
                /\ d_last' = ComputeCall("ok", x, y, z)
    /\ d_calls' = Counted("compute")
    /\ UNCHANGED <<buffer_sizes, buffer_bindings, cs_module, bind_group, compute_pipeline>>
    /\ DeviceFrame

\* Device::download: output_bytes when the mapping of the download buffers at
\* the positions in failed fails
RECURSIVE download_from(_, _)
download_from(i, failed) ==
    IF i > Len(download_buffers) THEN <<>>
    ELSE (IF i \in failed THEN <<>> ELSE <<download_buffers[i].contents>>)
         \o download_from(i + 1, failed)

\* download() leaving its loop at the first mapping that fails
RECURSIVE download_until_failure(_, _)
download_until_failure(i, failed) ==
    IF i > Len(download_buffers) \/ i \in failed THEN <<>>
    ELSE <<download_buffers[i].contents>> \o download_until_failure(i + 1, failed)

download_output_aborting(failed) == download_until_failure(1, failed)

download_output(failed) == download_from(1, failed)

\* Device::download
download(failed) ==
    /\ DeviceLive
    /\ d_last' = Call("download", "ok", <<>>, 0, failed, download_output(failed))
    /\ d_calls' = Counted("download")
    /\ UNCHANGED <<upload_buffers, download_buffers, buffer_sizes, buffer_bindings,
                   cs_module, bind_group, compute_pipeline, queue>>
    /\ DeviceFrame

\* The work-group counts the callers of compute() choose from
WorkGroups == {<<1, 1, 1>>, <<2, 3, 1>>}

\* The sets of download buffers whose mapping can fail in one download()
MapFailures ==
    {failed \in SUBSET (1..Len(download_buffers)) : Cardinality(failed) <= MaxMapFailures}

NextDevice ==
    \/ \E buffer_infos \in Requests : upload(buffer_infos)
    \/ \E src \in ShaderSources : set_compute_shader(src)
    \/ \E wg \in WorkGroups, effect \in ShaderEffects : compute(wg[1], wg[2], wg[3], effect)
    \/ \E failed \in MapFailures : download(failed)

SpecDevice == InitDevice /\ [][NextDevice]_vars

\* ---------------------------------------------------------------------------
\* ExtraBytesRecord
\* ---------------------------------------------------------------------------

\* ---- bounds of the extra-bytes specification
MaxFill == 2

\* A field of a struct: its name, its size and the alignment of its type
Field(name, size, align) == [name |-> name, size |-> size, align |-> align]

\* The fields of the raw record with the four unused bytes after the name
\* left out
ExtraBytesRecordRaw_without_unused ==
    <<Field("_reserved", 2, 1), Field("data_type", 1, 1), Field("options", 1, 1),
      Field("name", 32, 1),
      Field("no_data", 8, 1), Field("_deprecated_1", 16, 1),
      Field("min", 8, 1), Field("_deprecated_2", 16, 1),
      Field("max", 8, 1), Field("_deprecated_3", 16, 1),
      Field("scale", 8, 8), Field("_deprecated_4", 16, 1),
      Field("offset", 8, 8), Field("_deprecated_5", 16, 1),
      Field("description", 32, 1)>>

\* struct ExtraBytesRecordRaw: byte arrays ([u8; n], [i8; n]), u8 and f64
ExtraBytesRecordRaw ==
    <<Field("_reserved", 2, 1), Field("data_type", 1, 1), Field("options", 1, 1),
      Field("name", 32, 1), Field("_unused", 4, 1),
      Field("no_data", 8, 1), Field("_deprecated_1", 16, 1),
      Field("min", 8, 1), Field("_deprecated_2", 16, 1),
      Field("max", 8, 1), Field("_deprecated_3", 16, 1),
      Field("scale", 8, 8), Field("_deprecated_4", 16, 1),
      Field("offset", 8, 8), Field("_deprecated_5", 16, 1),
      Field("description", 32, 1)>>

\* #[repr(C, packed(1))]: no field is aligned to more than one byte
packed == 1

\* The alignment a field gets in a repr(C) struct packed to pack bytes
field_align(field, pack) == IF field.align < pack THEN field.align ELSE pack

\* repr(C): the offset of the k-th field is the end of the field before it,
\* rounded up to the field's alignment
RECURSIVE offset_of_field(_, _, _)
offset_of_field(fields, k, pack) ==
    IF k = 1 THEN 0
    ELSE align_to(offset_of_field(fields, k - 1, pack) + fields[k - 1].size,
                  field_align(fields[k], pack))

\* The alignment of the struct: the largest alignment of a field
RECURSIVE align_of(_, _)
align_of(fields, pack) ==
    IF fields = <<>> THEN 1
    ELSE LET rest == align_of(Tail(fields), pack)
         IN  IF field_align(Head(fields), pack) > rest
             THEN field_align(Head(fields), pack) ELSE rest

\* std::mem::size_of: the end of the last field, rounded up to the alignment
\* of the struct
size_of(fields, pack) ==
    align_to(offset_of_field(fields, Len(fields), pack) + fields[Len(fields)].size,
             align_of(fields, pack))

\* The bytes that fill the upper part of a stored 8-byte pattern
FillBytes == <<0, 255, 128, 127, 1>>

\* A stored 8-byte pattern (Option<[u8; 8]> that is Some): two low bytes from
\* the palette, then six bytes of one fill; with the fill 0 a small number,
\* with 255 a small negative one
Pattern(s, t, u) ==
    [some |-> TRUE,
     bytes |-> <<Palette[(s % Len(Palette)) + 1], Palette[(t % Len(Palette)) + 1]>>
               \o [k \in 1..6 |-> FillBytes[(u % Len(FillBytes)) + 1]]]

FloatTypes == {"F32", "F64"}
SignedTypes == {"I8", "I16", "I32", "I64"}
UnsignedTypes == {"U8", "U16", "U32", "U64"}

\* The four 16-bit digits of the eight bytes read most significant byte first
be_digits(bytes) ==
    [j \in 1..4 |-> bytes[2 * j - 1] * 256 + bytes[2 * j]]

\* The four 16-bit digits of the eight bytes read least significant byte
\* first, the most significant digit first
le_digits(bytes) ==
    [j \in 1..4 |-> bytes[10 - 2 * j] * 256 + bytes[9 - 2 * j]]

\* u64::from_le_bytes: the number as four digits of base 2^16
u64_from_le_bytes(bytes) ==
    [family |-> "u64", sign |-> 0, exponent |-> 0, digits |-> le_digits(bytes)]

\* i64::from_le_bytes: two's complement, so the top digit counts from -2^15
signed_top(digits) ==
    [digits EXCEPT ![1] = IF digits[1] >= 32768 THEN digits[1] - 65536 ELSE digits[1]]

i64_from_le_bytes(bytes) ==
    [family |-> "i64", sign |-> 0, exponent |-> 0, digits |-> signed_top(le_digits(bytes))]

\* f64::from_le_bytes: the sign bit, the 11 exponent bits and the 52 fraction
\* bits (as digits of base 2^16) of the IEEE 754 double
fraction_of(digits) == [digits EXCEPT ![1] = digits[1] % 16]

f64_from_le_bytes(bytes) ==
    [family |-> "f64",
     sign |-> le_digits(bytes)[1] \div 32768,
     exponent |-> (le_digits(bytes)[1] % 32768) \div 16,
     digits |-> fraction_of(le_digits(bytes))]

\* What an accessor call does: it returns an Option or panics
Returned(option) == [outcome |-> "returned"] @@ option
Panicked == [outcome |-> "panic", some |-> FALSE, value |-> NoValue]
None == [some |-> FALSE, value |-> NoValue]
Some(v) == [some |-> TRUE, value |-> v]

\* self.<field>.as_ref().map(|v| match self.data_type { <family> => <read>(*v),
\* _ => panic!(..) }): the closure runs only for a value that is present
map_pattern(field, in_family, read) ==
    IF ~field.some THEN Returned(None)
    ELSE IF in_family THEN Returned(Some(read))
    ELSE Panicked

no_data_value_f64(record) ==
    map_pattern(record.no_data_value, record.data_type \in FloatTypes,
                f64_from_le_bytes(record.no_data_value.bytes))

no_data_value_i64(record) ==
    map_pattern(record.no_data_value, record.data_type \in SignedTypes,
                i64_from_le_bytes(record.no_data_value.bytes))

no_data_value_u64(record) ==
    map_pattern(record.no_data_value, record.data_type \in UnsignedTypes,
                u64_from_le_bytes(record.no_data_value.bytes))

min_value_f64(record) ==
    map_pattern(record.min_value, record.data_type \in FloatTypes,
                f64_from_le_bytes(record.min_value.bytes))

min_value_i64(record) ==
    map_pattern(record.min_value, record.data_type \in SignedTypes,
                i64_from_le_bytes(record.min_value.bytes))

min_value_u64(record) ==
    map_pattern(record.min_value, record.data_type \in UnsignedTypes,
                u64_from_le_bytes(record.min_value.bytes))

\* The records: any data type, each optional value absent or a pattern
InitExtraBytes ==
    /\ endian \in Endians
    /\ AlignIdle
    /\ WriterIdle
    /\ DeviceIdle
    /\ StorageIdle
    /\ \E dt \in DataTypes, s \in 0..MaxSeed, t \in 0..MaxSeed, u \in 0..MaxFill,
          has_no_data \in BOOLEAN, has_min \in BOOLEAN :
          e_record = [data_type |-> dt,
                      no_data_value |-> IF has_no_data THEN Pattern(s, t, u) ELSE NoPattern,
                      min_value |-> IF has_min THEN Pattern(t, s, u) ELSE NoPattern]
    /\ e_call = "none"
    /\ e_result = NoCall

\* One accessor call on the record
Accessed(name, result) ==
    /\ e_call = "none"
    /\ e_call' = name
    /\ e_result' = result
    /\ UNCHANGED <<endian, e_record, alignVars, writerVars, deviceVars, storageVars>>

call_no_data_value_f64 == Accessed("no_data_value_f64", no_data_value_f64(e_record))
call_no_data_value_i64 == Accessed("no_data_value_i64", no_data_value_i64(e_record))
call_no_data_value_u64 == Accessed("no_data_value_u64", no_data_value_u64(e_record))
call_min_value_f64 == Accessed("min_value_f64", min_value_f64(e_record))
call_min_value_i64 == Accessed("min_value_i64", min_value_i64(e_record))
call_min_value_u64 == Accessed("min_value_u64", min_value_u64(e_record))

NextExtraBytes ==
    \/ call_no_data_value_f64
    \/ call_no_data_value_i64
    \/ call_no_data_value_u64
    \/ call_min_value_f64
    \/ call_min_value_i64
    \/ call_min_value_u64

SpecExtraBytes == InitExtraBytes /\ [][NextExtraBytes]_vars

\* ---------------------------------------------------------------------------
\* PointLayout and the point buffers
\* ---------------------------------------------------------------------------

\* ---- bounds of the storage specification
MaxAttributes == 2
MaxPoints == 2

\* The attributes the layouts are built from: widths 1, 2, 8 and 3
AttributePool ==
    {Attr("Classification", "U8"), Attr("Intensity", "U16"), Attr("GpsTime", "F64"),
     Attr("MyVec3U8", "Vec3u8")}

\* FieldAlignment: Default (0) or an explicit alignment in bytes
FieldAlignments == {0, 1, 4}

\* The seeds the values of a point are drawn from
PointSeeds == {0, 3}

\* The alignment requirement of a data type: its own width
natural_alignment(datatype) == attribute_size(datatype)

\* The alignment an attribute is added with under the policy
alignment_under(datatype, field_alignment) ==
    IF field_alignment = 0 THEN natural_alignment(datatype) ELSE field_alignment

\* The end of the last attribute of the layout: the size of one point
size_of_point_entry(layout) ==
    IF layout = <<>> THEN 0
    ELSE layout[Len(layout)].offset + attribute_size(layout[Len(layout)].datatype)

\* The entry of an attribute added without regard to its alignment
layout_entry_unaligned(layout, attribute, field_alignment) ==
    [name |-> attribute.name, datatype |-> attribute.datatype,
     align |-> alignment_under(attribute.datatype, field_alignment),
     offset |-> size_of_point_entry(layout)]

\* PointLayout::add_attribute: the entry of the attribute, placed at the end
\* of the layout rounded up to the attribute's alignment
layout_entry(layout, attribute, field_alignment) ==
    [name |-> attribute.name, datatype |-> attribute.datatype,
     align |-> alignment_under(attribute.datatype, field_alignment),
     offset |-> align_to(size_of_point_entry(layout),
                         alignment_under(attribute.datatype, field_alignment))]

\* The values of one point: per attribute of the layout the bytes of one
\* element, drawn from the palette by the seed
point_values(layout, seed) ==
    [k \in 1..Len(layout) |-> RawBytes(layout[k].datatype, 1, seed + k, k)]

\* The bytes of one point in the interleaved representation: every attribute
\* at its offset, zero bytes in the gaps
interleaved_row(layout, values) ==
    [b \in 1..size_of_point_entry(layout) |->
        LET at == {k \in 1..Len(layout) :
                      /\ layout[k].offset < b
                      /\ b <= layout[k].offset + attribute_size(layout[k].datatype)}
        IN  IF at = {} THEN 0
            ELSE values[CHOOSE k \in at : TRUE][b - layout[CHOOSE k \in at : TRUE].offset]]

\* An interleaved read that steps from point to point by the size of the
\* attribute instead of the size of the point
interleaved_range_attribute_stride(layout, data, len, k) ==
    Concat([i \in 1..len |->
        Slice(data,
              (i - 1) * attribute_size(layout[k].datatype) + layout[k].offset,
              (i - 1) * attribute_size(layout[k].datatype) + layout[k].offset
                 + attribute_size(layout[k].datatype))])

\* get_raw_attribute_range(0..len, attribute) of the interleaved buffer: point
\* i's attribute lives at i * point_size + offset
interleaved_range(layout, data, len, k) ==
    Concat([i \in 1..len |->
        Slice(data,
              (i - 1) * size_of_point_entry(layout) + layout[k].offset,
              (i - 1) * size_of_point_entry(layout) + layout[k].offset
                 + attribute_size(layout[k].datatype))])

\* get_raw_attribute_range(0..len, attribute) of the per-attribute buffer: the
\* first len elements of the attribute's region
columnar_range(layout, regions, len, k) ==
    Slice(regions[k], 0, len * attribute_size(layout[k].datatype))

InitStorage ==
    /\ endian \in Endians
    /\ AlignIdle
    /\ WriterIdle
    /\ DeviceIdle
    /\ ExtraIdle
    /\ s_pc = "layout"
    /\ s_layout = <<>>
    /\ s_points = <<>>
    /\ s_columnar = <<>>
    /\ s_interleaved = <<>>
    /\ s_read = NoRead

StorageFrame == UNCHANGED <<endian, alignVars, writerVars, deviceVars, extraVars>>

\* PointLayout::add_attribute
add_attribute(attribute, field_alignment) ==
    /\ s_pc = "layout"
    /\ Len(s_layout) < MaxAttributes
    /\ \A k \in 1..Len(s_layout) : s_layout[k].name # attribute.name
    /\ s_layout' = Append(s_layout, layout_entry(s_layout, attribute, field_alignment))
    /\ UNCHANGED <<s_pc, s_points, s_columnar, s_interleaved, s_read>>
    /\ StorageFrame

\* PerAttributeVecPointStorage::new(layout) and
\* InterleavedVecPointStorage::new(layout): two empty buffers of the layout
new_buffers ==
    /\ s_pc = "layout"
    /\ s_layout # <<>>
    /\ s_pc' = "buffers"
    /\ s_columnar' = [k \in 1..Len(s_layout) |-> <<>>]
    /\ s_interleaved' = <<>>
    /\ UNCHANGED <<s_layout, s_points, s_read>>
    /\ StorageFrame

\* push_points of one point on both buffers: one append per attribute region,
\* one append of the row
push_points(seed) ==
    /\ s_pc = "buffers"
    /\ Len(s_points) < MaxPoints
    /\ s_points' = Append(s_points, point_values(s_layout, seed))
    /\ s_columnar' = [k \in 1..Len(s_layout) |->
                          s_columnar[k] \o point_values(s_layout, seed)[k]]
    /\ s_interleaved' = s_interleaved \o interleaved_row(s_layout, point_values(s_layout, seed))
    /\ s_read' = NoRead
    /\ UNCHANGED <<s_pc, s_layout>>
    /\ StorageFrame

\* get_raw_attribute_range(0..len, attribute) on both buffers, for the k-th
\* attribute of the layout
get_raw_attribute_ranges(k) ==
    /\ s_pc = "buffers"
    /\ s_read.attribute # k
    /\ s_read' = [done |-> TRUE, attribute |-> k,
                  columnar |-> columnar_range(s_layout, s_columnar, Len(s_points), k),
                  interleaved |-> interleaved_range(s_layout, s_interleaved, Len(s_points), k)]
    /\ UNCHANGED <<s_pc, s_layout, s_points, s_columnar, s_interleaved>>
    /\ StorageFrame

NextStorage ==
    \/ \E attribute \in AttributePool, field_alignment \in FieldAlignments :
          add_attribute(attribute, field_alignment)
    \/ new_buffers
    \/ \E seed \in PointSeeds : push_points(seed)
    \/ \E k \in 1..Len(s_layout) : get_raw_attribute_ranges(k)

SpecStorage == InitStorage /\ [][NextStorage]_vars

\* ---------------------------------------------------------------------------
\* Claims about Device (checked under SpecDevice)
\* ---------------------------------------------------------------------------

\* The realigned byte length of len elements of the data type: 32 bits per
\* scalar below 32 bits, four components per vector
RealignedLength(datatype, len) ==
    len * (CASE datatype \in {"U8", "I8", "U16", "I16", "Bool", "U32", "I32", "F32"} -> 4
             [] datatype \in {"F64", "U64", "I64"} -> 8
             [] datatype \in {"Vec3u8", "Vec3u16", "Vec3f32"} -> 16
             [] datatype = "Vec3f64" -> 32)

Is64BitInteger(info) == info.attribute.datatype \in {"U64", "I64"}

\* The buffer infos of a request that upload() processes: all of them, or the
\* ones before the first 64-bit integer attribute
Processed(infos) ==
    LET bad == {i \in 1..Len(infos) : Is64BitInteger(infos[i])}
    IN  IF bad = {} THEN infos
        ELSE SubSeq(infos, 1, (CHOOSE i \in bad : \A j \in bad : i <= j) - 1)

\* The pairs at the positions from+1.. of the lists are those of the infos
PairsAre(ups, downs, sizes, bindings, from, infos, len) ==
    \A i \in 1..Len(infos) :
        /\ ups[from + i].attribute = infos[i].attribute
        /\ Len(ups[from + i].contents) = RealignedLength(infos[i].attribute.datatype, len)
        /\ downs[from + i].size = RealignedLength(infos[i].attribute.datatype, len)
        /\ sizes[from + i] = RealignedLength(infos[i].attribute.datatype, len)
        /\ bindings[from + i] = infos[i].binding

\* C3 as claimed: after any sequence of upload() calls the buffer pairs of the
\* device are exactly those of the most recent upload() call.
C3_OnlyLatestUpload ==
    (d_last.op = "upload" /\ d_last.outcome = "ok") =>
        /\ Len(upload_buffers) = Len(d_last.infos)
        /\ Len(download_buffers) = Len(d_last.infos)
        /\ Len(buffer_sizes) = Len(d_last.infos)
        /\ Len(buffer_bindings) = Len(d_last.infos)
        /\ PairsAre(upload_buffers, download_buffers, buffer_sizes, buffer_bindings,
                    0, d_last.infos, d_last.len)

\* C3 amended: every upload() call creates new buffers and appends them to the
\* pairs of the earlier calls, which it keeps: one pair per attribute it
\* processed, each sized to the realigned byte length and associated with the
\* binding index the caller supplied.
C3_UploadAppendsPairs ==
    [][ d_calls'["upload"] = d_calls["upload"] + 1 =>
          LET n == Len(upload_buffers)
              new == Processed(d_last'.infos)
          IN  /\ Len(upload_buffers') = n + Len(new)
              /\ Len(download_buffers') = n + Len(new)
              /\ Len(buffer_sizes') = n + Len(new)
              /\ Len(buffer_bindings') = n + Len(new)
              /\ SubSeq(upload_buffers', 1, n) = upload_buffers
              /\ SubSeq(download_buffers', 1, n) = download_buffers
              /\ SubSeq(buffer_sizes', 1, n) = buffer_sizes
              /\ SubSeq(buffer_bindings', 1, n) = buffer_bindings
              /\ PairsAre(upload_buffers', download_buffers', buffer_sizes',
                          buffer_bindings', n, new, d_last'.len) ]_vars

\* Witness of C3: a second upload() has added a pair to the pairs of the first.
C3_Witness ==
    /\ d_last.op = "upload"
    /\ d_last.outcome = "ok"
    /\ d_calls["upload"] >= 2
    /\ Len(upload_buffers) > Len(d_last.infos)
    /\ \E i \in 1..Len(upload_buffers) : upload_buffers[i].attribute.datatype = "Vec3u8"

\* The dispatch of the batch compute() submitted last
LastDispatch == queue[Len(queue)][1]

\* C4 as claimed: whenever compute() issues a dispatch, the bind group it
\* binds has one entry for every attribute uploaded so far, with the caller's
\* binding index and the attribute's upload buffer as a read-write storage
\* buffer, whatever the order of the upload() and set_compute_shader() calls.
C4_BindGroupCoversUploads ==
    (d_last.op = "compute" /\ d_last.outcome = "ok") =>
        /\ Len(LastDispatch.bind_group) = Len(upload_buffers)
        /\ \A i \in 1..Len(upload_buffers) :
              LastDispatch.bind_group[i] =
                  [binding |-> buffer_bindings[i], resource |-> upload_buffers[i].id,
                   read_only |-> FALSE]

\* C5 as claimed: download() returns one byte sequence per uploaded attribute
\* in request order, whatever the outcome of the buffer mappings.
C5_OneResultPerAttribute ==
    d_last.op = "download" =>
        /\ Len(d_last.result) = Len(upload_buffers)
        /\ \A i \in 1..Len(upload_buffers) :
              d_last.result[i] = download_buffers[i].contents

\* C6: a mapping that fails during download() costs only its own buffer: the
\* bytes of every download buffer whose mapping succeeds are returned, in the
\* order of the buffers.
C6_MappingFailureIsolated ==
    d_last.op = "download" =>
        LET mapped == (1..Len(download_buffers)) \ d_last.failed
            rank(i) == Cardinality({j \in mapped : j <= i})
        IN  /\ d_last.outcome = "ok"
            /\ Len(d_last.result) = Cardinality(mapped)
            /\ \A i \in mapped : d_last.result[rank(i)] = download_buffers[i].contents

\* Witness of C6: after a compute(), the mapping of the first download buffer
\* failed and a later buffer was mapped and returned.
C6_Witness ==
    /\ d_last.op = "download"
    /\ d_calls["compute"] >= 1
    /\ 1 \in d_last.failed
    /\ \E i \in 2..Len(download_buffers) :
          /\ i \notin d_last.failed
          /\ download_buffers[i].contents # <<>>
          /\ download_buffers[i].contents[1] # UNSPECIFIED

\* C9: upload() of a U64 or I64 attribute panics, and no upload buffer,
\* download buffer, buffer size or binding index is registered for it.
C9_NoBuffersFor64BitIntegers ==
    /\ (d_last.op = "upload" /\ \E i \in 1..Len(d_last.infos) : Is64BitInteger(d_last.infos[i]))
          => d_last.outcome = "panic"
    /\ \A i \in 1..Len(upload_buffers) :
          upload_buffers[i].attribute.datatype \notin {"U64", "I64"}
    /\ Len(upload_buffers) = Len(download_buffers)
    /\ Len(upload_buffers) = Len(buffer_sizes)
    /\ Len(upload_buffers) = Len(buffer_bindings)
    /\ d_last.op = "upload" =>
          \E n \in 0..Len(upload_buffers) :
              /\ Len(upload_buffers) = n + Len(Processed(d_last.infos))
              /\ \A i \in 1..Len(Processed(d_last.infos)) :
                    /\ upload_buffers[n + i].attribute = Processed(d_last.infos)[i].attribute
                    /\ buffer_bindings[n + i] = Processed(d_last.infos)[i].binding

\* Witness of C9: an upload() panicked on a 64-bit integer attribute listed
\* after an attribute it had processed.
C9_Witness ==
    /\ d_last.op = "upload"
    /\ d_last.outcome = "panic"
    /\ Len(d_last.infos) = 2
    /\ Is64BitInteger(d_last.infos[2])
    /\ ~Is64BitInteger(d_last.infos[1])

\* The (attribute, binding) pairs the callers ask for
RequestedPairs ==
    UNION {{<<request[i].attribute, request[i].binding>> : i \in 1..Len(request)} :
              request \in Requests}

\* C32: whatever calls were made on the device, an upload() that aborted on a
\* 64-bit integer attribute included, the lists of upload buffers, download
\* buffers, buffer sizes and binding indices have the same length, and the
\* entries at one position belong to one uploaded attribute: the two buffers
\* were created together, the download buffer and the recorded size have the
\* byte length of the upload buffer, and the binding is one the caller gave
\* with that attribute.
C32_ListsStayParallel ==
    /\ Len(download_buffers) = Len(upload_buffers)
    /\ Len(buffer_sizes) = Len(upload_buffers)
    /\ Len(buffer_bindings) = Len(upload_buffers)
    /\ \A i \in 1..Len(upload_buffers) :
          /\ upload_buffers[i].id = 2 * i - 1
          /\ download_buffers[i].id = 2 * i
          /\ buffer_sizes[i] = Len(upload_buffers[i].contents)
          /\ download_buffers[i].size = buffer_sizes[i]
          /\ <<upload_buffers[i].attribute, buffer_bindings[i]>> \in RequestedPairs

\* Witness of C32: after an upload() of two attributes, a second upload()
\* registered a third attribute and aborted on the 64-bit integer after it.
C32_Witness ==
    /\ d_last.op = "upload"
    /\ d_last.outcome = "panic"
    /\ d_calls["upload"] = 2
    /\ Len(upload_buffers) = 3
    /\ Len(buffer_bindings) = 3
    /\ buffer_bindings[3] = 3

\* C33 as claimed: an upload() that aborts on a 64-bit integer attribute
\* leaves the four lists of the device exactly as they were before the call.
C33_AbortedUploadLeavesLists ==
    [][(d_calls'["upload"] = d_calls["upload"] + 1 /\ d_last'.outcome = "panic") =>
          /\ upload_buffers' = upload_buffers
          /\ download_buffers' = download_buffers
          /\ buffer_sizes' = buffer_sizes
          /\ buffer_bindings' = buffer_bindings]_vars

\* The realigned bytes of the attribute for the points of the buffer
RealignedBytes(attribute, len) ==
    align_slice(endian, get_raw_attribute_range(len, attribute), attribute.datatype).bytes

\* The realigned bytes of one element, as claimed for each data type
RealignedElementBytes(datatype) ==
    CASE datatype \in {"U8", "I8", "U16", "I16", "Bool", "U32", "I32", "F32"} -> 4
      [] datatype = "F64" -> 8
      [] datatype \in {"Vec3u8", "Vec3u16", "Vec3f32"} -> 16
      [] datatype = "Vec3f64" -> 32

\* The positions of the download buffers whose mapping did not fail in the
\* last download(), in order
MappedPositions ==
    SelectSeq([i \in 1..Len(download_buffers) |-> i], LAMBDA i : i \notin d_last.failed)

\* C34: for a point buffer of N points the realigned bytes of an attribute are
\* N * 4 bytes for U8, I8, U16, I16, Bool, U32, I32 and F32, N * 8 for F64,
\* N * 16 for Vec3u8, Vec3u16 and Vec3f32 and N * 32 for Vec3f64; that is the
\* byte length of the attribute's upload buffer, of its download buffer, of
\* the recorded size and of the byte sequence download() returns for it.
C34_RealignedByteLength ==
    /\ \A datatype \in DataTypes \ {"U64", "I64"} :
          Len(RealignedBytes(Attr("attribute", datatype), point_buffer_len))
             = point_buffer_len * RealignedElementBytes(datatype)
    /\ \A i \in 1..Len(upload_buffers) :
          LET length == point_buffer_len
                          * RealignedElementBytes(upload_buffers[i].attribute.datatype)
          IN  /\ Len(upload_buffers[i].contents) = length
              /\ i <= Len(download_buffers) /\ i <= Len(buffer_sizes)
              /\ download_buffers[i].size = length
              /\ Len(download_buffers[i].contents) = length
              /\ buffer_sizes[i] = length
    /\ d_last.op = "download" =>
          /\ Len(d_last.result) = Len(MappedPositions)
          /\ \A k \in 1..Len(MappedPositions) :
                Len(d_last.result[k])
                   = point_buffer_len
                       * RealignedElementBytes(
                            upload_buffers[MappedPositions[k]].attribute.datatype)

\* Witness of C34: a buffer of two points was uploaded, a shader ran, and
\* download() returned 32 bytes for the Vec3u8 attribute and 8 bytes for the
\* I16 attribute.
C34_Witness ==
    /\ d_last.op = "download"
    /\ d_calls["compute"] >= 1
    /\ point_buffer_len = 2
    /\ Len(d_last.result) = 2
    /\ upload_buffers[1].attribute.datatype = "Vec3u8"
    /\ upload_buffers[2].attribute.datatype = "I16"
    /\ Len(d_last.result[1]) = 32
    /\ Len(d_last.result[2]) = 8

\* The step is an upload() call
IsUpload == d_calls'["upload"] = d_calls["upload"] + 1

\* C22: for every attribute it processes, upload() creates one upload buffer
\* holding the realigned bytes and one download buffer of exactly the same
\* byte size, and records that size and the caller's binding index at the
\* list position of the two buffers.
C22_PairedBuffersAtOnePosition ==
    [][IsUpload =>
          /\ Len(upload_buffers') = Len(upload_buffers) + Len(Processed(d_last'.infos))
          /\ \A k \in 1..Len(Processed(d_last'.infos)) :
                LET i == Len(upload_buffers) + k
                    info == Processed(d_last'.infos)[k]
                IN  /\ i <= Len(download_buffers')
                    /\ i <= Len(buffer_sizes')
                    /\ i <= Len(buffer_bindings')
                    /\ upload_buffers'[i].attribute = info.attribute
                    /\ upload_buffers'[i].contents
                          = RealignedBytes(info.attribute, d_last'.len)
                    /\ download_buffers'[i].size = Len(upload_buffers'[i].contents)
                    /\ Len(download_buffers'[i].contents) = Len(upload_buffers'[i].contents)
                    /\ download_buffers'[i].id # upload_buffers'[i].id
                    /\ buffer_sizes'[i] = Len(upload_buffers'[i].contents)
                    /\ buffer_bindings'[i] = info.binding]_vars

\* Witness of C22: a second upload() put a Vec3u8 attribute of two points at
\* the third position of the lists: 32 realigned bytes, a download buffer of
\* 32 bytes, the size 32 and the caller's binding 0.
C22_Witness ==
    /\ d_last.op = "upload"
    /\ d_last.outcome = "ok"
    /\ d_calls["upload"] = 2
    /\ point_buffer_len = 2
    /\ Len(upload_buffers) = 3
    /\ upload_buffers[3].attribute.datatype = "Vec3u8"
    /\ Len(upload_buffers[3].contents) = 32
    /\ download_buffers[3].size = 32
    /\ buffer_sizes[3] = 32
    /\ buffer_bindings[3] = 0

\* The step is a compute() call
IsCompute == d_calls'["compute"] = d_calls["compute"] + 1

\* The command batch a step submits to the queue, when it submits one
Submitted == queue'[Len(queue')]

\* C23: each compute(x, y, z) call (that returns) records exactly one dispatch
\* with the caller's work-group counts, followed by one copy from every upload
\* buffer to its paired download buffer over the buffer's full recorded size,
\* and submits all of it to the queue as one command batch.
C23_OneDispatchThenCopies ==
    [][(IsCompute /\ d_last'.outcome = "ok") =>
          /\ Len(queue') = Len(queue) + 1
          /\ SubSeq(queue', 1, Len(queue)) = queue
          /\ Len(Submitted) = 1 + Len(upload_buffers)
          /\ Submitted[1].op = "dispatch"
          /\ <<Submitted[1].x, Submitted[1].y, Submitted[1].z>> = d_last'.groups
          /\ \A i \in 1..Len(upload_buffers) :
                /\ Submitted[1 + i].op = "copy_buffer_to_buffer"
                /\ Submitted[1 + i].source = upload_buffers[i].id
                /\ Submitted[1 + i].destination = download_buffers[i].id
                /\ Submitted[1 + i].size = buffer_sizes[i]
                /\ Submitted[1 + i].size = Len(upload_buffers[i].contents)
                /\ Submitted[1 + i].size = download_buffers[i].size]_vars

\* Witness of C23: a compute(2, 3, 1) was submitted as the second batch of the
\* queue, with copies for two buffer pairs of which the shader is bound to
\* none (they were uploaded after set_compute_shader()).
C23_Witness ==
    /\ d_last.op = "compute"
    /\ d_last.outcome = "ok"
    /\ d_last.groups = <<2, 3, 1>>
    /\ Len(queue) = 1
    /\ Len(upload_buffers) = 2
    /\ Len(queue[1]) = 3
    /\ queue[1][1].bind_group = <<>>
    /\ queue[1][3].destination = download_buffers[2].id

\* C24: a dispatch is only issued from the Bound state: compute() on a device
\* for which no set_compute_shader() call has succeeded yet fails fatally and
\* submits nothing to the queue.
C24_NoDispatchBeforeShader ==
    [][(IsCompute /\ d_calls["set_compute_shader"] = 0) =>
          /\ d_last'.outcome = "panic"
          /\ queue' = queue
          /\ upload_buffers' = upload_buffers
          /\ download_buffers' = download_buffers]_vars

\* Witness of C24: compute() was called after an upload() and before any
\* set_compute_shader(): it panicked and the queue is empty.
C24_Witness ==
    /\ d_last.op = "compute"
    /\ d_last.outcome = "panic"
    /\ d_calls["upload"] >= 1
    /\ d_calls["set_compute_shader"] = 0
    /\ Len(upload_buffers) >= 1
    /\ queue = <<>>

\* ---------------------------------------------------------------------------
\* Claims about PntsWriter (checked under SpecWriter)
\* ---------------------------------------------------------------------------

\* Positions of the sink that hold a chunk of the kind
ChunksOfKind(kind) == {i \in 1..Len(sink) : sink[i].kind = kind}

\* A serialization of the container has been completed for each batch-table
\* header in the sink: it is the last thing write_cached_points writes.
CompletedContainers == ChunksOfKind("batch_table_header")

\* The chunks of the last container begun in the sink
LastContainer ==
    LET starts == ChunksOfKind("pnts_header")
        first == CHOOSE i \in starts : \A j \in starts : j <= i
    IN  IF starts = {} THEN <<>> ELSE SubSeq(sink, first, Len(sink))

\* C1: over any sequence of write() and flush() calls that ends with the
\* writer being dropped, the container is serialized to the sink exactly once:
\* one complete container is in the sink, nothing was written after it, and
\* where no flush failed the container was begun only once.
C1_SerializedExactlyOnce ==
    w_pc = "dropped" =>
        /\ Cardinality(CompletedContainers) = 1
        /\ sink[Len(sink)].kind = "batch_table_header"
        /\ w_failures = 0 => Cardinality(ChunksOfKind("pnts_header")) = 1

\* Witness of C1: a writer was flushed explicitly with success, called again
\* and then dropped.
C1_Witness ==
    /\ w_pc = "dropped"
    /\ w_last = "drop_ok"
    /\ w_calls >= 2
    /\ w_failures = 0
    /\ ~requires_flush
    /\ Len(cached_points) > 0
    /\ sink # <<>> /\ sink[2].table.POINTS_LENGTH # ToBig(0)

\* C2 as claimed: once the writer has been dropped, every point passed to a
\* write() that returned Ok is in the serialized output: the container counts
\* it and every attribute region holds it.
C2_EveryWrittenPointSerialized ==
    w_pc = "dropped" =>
        /\ LastContainer # <<>>
        /\ \A i \in 1..Len(LastContainer) :
              /\ LastContainer[i].kind = "feature_table_header"
                    => LastContainer[i].table.POINTS_LENGTH
                          = BigMul(ToBig(w_block), Len(w_written))
              /\ LastContainer[i].kind = "attribute"
                    => LastContainer[i].points = w_written

\* The attributes of a layout
AttributesOf(layout) == {layout[i] : i \in 1..Len(layout)}

\* The three semantics of the .pnts format with their data types
SupportedSemantics ==
    {Attr(POSITION_3D, "Vec3f32"), Attr(COLOR_RGB, "Vec3u8"), Attr(NORMAL, "Vec3f32")}

\* C11 as claimed: the cache of a writer is built against the reduced layout:
\* its layout holds the supported semantics that occur in the input layout,
\* with their .pnts data types, and no other attribute of the input layout.
C11_CacheOnReducedLayout ==
    w_pc # "idle" =>
        /\ AttributesOf(cache_layout) \subseteq SupportedSemantics
        /\ \A a \in SupportedSemantics :
              (a \in AttributesOf(cache_layout))
                 <=> (\E b \in AttributesOf(expected_layout) : b.name = a.name)

\* Position of a supported semantic in the fixed order position, color, normal
SemanticRank(name) ==
    IF name = POSITION_3D THEN 1 ELSE IF name = COLOR_RGB THEN 2 ELSE 3

\* C12: get_default_point_layout() holds exactly those of position, color and
\* normal whose name occurs in the layout the writer was constructed with, in
\* that order and typed Vec3f32, Vec3u8, Vec3f32 whatever the source types;
\* every other attribute of the input is absent, and the construction of the
\* writer raises no error.
C12_DefaultLayoutIsReduction ==
    w_pc # "idle" =>
        /\ AttributesOf(get_default_point_layout) \subseteq SupportedSemantics
        /\ \A a \in SupportedSemantics :
              (a \in AttributesOf(get_default_point_layout))
                 <=> (\E b \in AttributesOf(expected_layout) : b.name = a.name)
        /\ \A j, k \in 1..Len(get_default_point_layout) :
              j < k => SemanticRank(get_default_point_layout[j].name)
                        < SemanticRank(get_default_point_layout[k].name)
        /\ w_last = "new" => w_pc = "open"

\* Witness of C12: a writer constructed with a layout whose position and color
\* have other data types than the .pnts ones, with a call made on it; the
\* default layout holds both with the .pnts types.
C12_Witness ==
    /\ w_pc = "open"
    /\ w_calls > 0
    /\ Attr(POSITION_3D, "Vec3f64") \in AttributesOf(expected_layout)
    /\ Attr(COLOR_RGB, "Vec3u16") \in AttributesOf(expected_layout)
    /\ get_default_point_layout = <<Attr(POSITION_3D, "Vec3f32"), Attr(COLOR_RGB, "Vec3u8")>>

\* The chunks a step appends to the sink
Emitted == SubSeq(sink', Len(sink) + 1, Len(sink'))

\* The number of points passed to the write() calls that returned Ok
PointsWritten == BigMul(ToBig(w_block), Len(w_written))

\* The key of a semantic in the feature-table header
SemanticKey(name) ==
    CASE name = POSITION_3D -> "POSITION"
      [] name = COLOR_RGB -> "RGB"
      [] name = NORMAL -> "NORMAL"

\* C13: the feature-table header a flush produces has exactly one data
\* reference per attribute of the reduced layout, keyed POSITION, RGB or
\* NORMAL, and the POINTS_LENGTH entry, which is the number of points buffered
\* by all write() calls before that flush (0 if there was none).
C13_FeatureTableEntries ==
    [][\A i \in 1..Len(Emitted) :
          Emitted[i].kind = "feature_table_header" =>
              /\ Cardinality(Emitted[i].table.references) = Len(default_layout)
              /\ {r.semantic : r \in Emitted[i].table.references}
                    = {SemanticKey(a.name) : a \in AttributesOf(default_layout)}
              /\ Emitted[i].table.POINTS_LENGTH = PointsWritten]_vars

\* Witness of C13: two points were written and a flush has put the header
\* into the sink: three data references and POINTS_LENGTH 2.
C13_Witness ==
    /\ w_last = "flush_ok"
    /\ w_block = 1
    /\ Len(w_written) = 2
    /\ \E i \in ChunksOfKind("feature_table_header") :
          /\ sink[i].table.POINTS_LENGTH = ToBig(2)
          /\ {r.semantic : r \in sink[i].table.references} = {"POSITION", "RGB", "NORMAL"}

\* a <= b for byte counts
BigLeq(a, b) == a.hi < b.hi \/ (a.hi = b.hi /\ a.lo <= b.lo)

\* The least multiple of 8 that is not below the byte count
RoundedUpTo8(a) ==
    BigAdd(a, ToBig(CHOOSE m \in 0..7 : (a.lo + m) % 8 = 0))

\* The byte offset a feature-table header gives for the attribute
OffsetIn(table, attribute) ==
    (CHOOSE r \in table.references : r.semantic = SemanticKey(attribute.name)).byte_offset

\* The bytes of the attribute's values for the number of points of the header
RegionLength(table, attribute) ==
    BigMul(table.POINTS_LENGTH, attribute_size(attribute.datatype))

\* C14: in a feature-table header the offset of the first attribute of the
\* reduced layout is 0 and the offset of every next one is the offset of the
\* one before plus that one's region length (attribute size times number of
\* buffered points) rounded up to a multiple of 8; so every offset is a
\* multiple of 8 and the regions the offsets address do not overlap.
C14_CumulativeOffsets ==
    \A i \in ChunksOfKind("feature_table_header") :
        \A k \in 1..Len(default_layout) :
            /\ k = 1 => OffsetIn(sink[i].table, default_layout[k]) = ToBig(0)
            /\ k > 1 =>
                  OffsetIn(sink[i].table, default_layout[k])
                     = BigAdd(OffsetIn(sink[i].table, default_layout[k - 1]),
                              RoundedUpTo8(RegionLength(sink[i].table, default_layout[k - 1])))
            /\ OffsetIn(sink[i].table, default_layout[k]).lo % 8 = 0
            /\ \A j \in 1..(k - 1) :
                  BigLeq(BigAdd(OffsetIn(sink[i].table, default_layout[j]),
                                RegionLength(sink[i].table, default_layout[j])),
                         OffsetIn(sink[i].table, default_layout[k]))

\* Witness of C14: a header for one point of position, color and normal is in
\* the sink: the regions of 12, 3 and 12 bytes are at offsets 0, 16 and 24.
C14_Witness ==
    \E i \in ChunksOfKind("feature_table_header") :
        /\ sink[i].table.POINTS_LENGTH = ToBig(1)
        /\ sink[i].table.references =
              {[semantic |-> "POSITION", byte_offset |-> ToBig(0)],
               [semantic |-> "RGB", byte_offset |-> ToBig(16)],
               [semantic |-> "NORMAL", byte_offset |-> ToBig(24)]}

\* The number of points in the cache
PointsCached == BigMul(ToBig(w_block), Len(cached_points))

\* The number of zero bytes from a byte count up to the next multiple of 8
GapTo8(a) == (8 - (a.lo % 8)) % 8

\* The region of one attribute in the feature-table body: the values of all
\* cached points, then the zero bytes up to the next 8-byte boundary
RegionOf(attribute) ==
    <<[kind |-> "attribute", name |-> attribute.name, points |-> cached_points,
       bytes |-> BigMul(PointsCached, attribute_size(attribute.datatype))]>>
    \o (IF GapTo8(BigMul(PointsCached, attribute_size(attribute.datatype))) = 0
        THEN <<>>
        ELSE <<[kind |-> "padding",
                bytes |-> ToBig(GapTo8(BigMul(PointsCached,
                                              attribute_size(attribute.datatype))))]>>)

\* The regions of the attributes from the k-th on, in layout order
RECURSIVE RegionsFrom(_)
RegionsFrom(k) ==
    IF k > Len(default_layout) THEN <<>>
    ELSE RegionOf(default_layout[k]) \o RegionsFrom(k + 1)

\* C15: a flush that serializes the cache with success emits to the sink, in
\* this order and nothing else: the container header, the feature-table
\* header, the feature-table body (the regions of the reduced layout's
\* attributes in layout order, each followed by zero bytes up to the next
\* 8-byte boundary) and the batch-table header.
C15_EmissionOrder ==
    [][(requires_flush /\ ~requires_flush') =>
          /\ Len(Emitted) >= 3
          /\ Emitted[1].kind = "pnts_header"
          /\ Emitted[2].kind = "feature_table_header"
          /\ SubSeq(Emitted, 3, Len(Emitted) - 1) = RegionsFrom(1)
          /\ Emitted[Len(Emitted)].kind = "batch_table_header"]_vars

\* Witness of C15: a flush has serialized one point of position, color and
\* normal with success: three regions and their padding are in the sink.
C15_Witness ==
    /\ w_last = "flush_ok"
    /\ ~requires_flush
    /\ Len(cached_points) = 1
    /\ Len(sink) = 9
    /\ [i \in 1..Len(sink) |-> sink[i].kind]
          = <<"pnts_header", "feature_table_header", "attribute", "padding",
              "attribute", "padding", "attribute", "padding", "batch_table_header">>

\* The step is a write() call that returned Ok
IsWriteOk == w_calls' = w_calls + 1 /\ w_last' = "write_ok"

\* C16: a write() call writes no byte to the sink; it grows the cache by the
\* points of the passed buffer and leaves the points buffered before
\* unchanged and in their order.
C16_WriteOnlyBuffers ==
    [][IsWriteOk =>
          /\ sink' = sink
          /\ Len(cached_points') = Len(cached_points) + (Len(w_written') - Len(w_written))
          /\ SubSeq(cached_points', 1, Len(cached_points)) = cached_points
          /\ SubSeq(cached_points', Len(cached_points) + 1, Len(cached_points'))
                = SubSeq(w_written', Len(w_written) + 1, Len(w_written'))]_vars

\* Witness of C16: a write() of one point was made on a writer that held a
\* point already and had been flushed before; the sink is as the flush left it.
C16_Witness ==
    /\ w_last = "write_ok"
    /\ Len(cached_points) = 2
    /\ ~requires_flush
    /\ sink # <<>> /\ sink[Len(sink)].kind = "batch_table_header"

\* The step runs write_cached_points: a flush() call or a drop of a writer
\* that still requires its flush
IsSerializingRun ==
    /\ requires_flush
    /\ \/ w_calls' = w_calls + 1 /\ w_last' \in {"flush_ok", "flush_err", "flush_panic"}
       \/ w_pc \in {"open", "unwinding"} /\ w_pc' \in {"dropped", "panicked", "aborted"}

\* The byte count does not fit in 32 bits
Exceeds32Bits(a) == a.hi >= 65536

\* The length of the feature-table body for the points in the cache
BodyLength ==
    BigSum([k \in 1..Len(default_layout) |->
        RoundedUpTo8(BigMul(PointsCached, attribute_size(default_layout[k].datatype)))])

\* The total byte length of the container for the points in the cache
TotalLength ==
    BigSum(<<ToBig(PntsHeader_BYTE_LENGTH),
             ToBig(feature_table_blob_len(create_feature_table)),
             BodyLength,
             ToBig(batch_table_blob_len)>>)

\* C19: when the total byte length or one of the section lengths computed at
\* a flush does not fit in 32 bits, the flush panics and has written no byte
\* of the container to the sink. (The lengths are computed once the headers
\* are serialized in memory; a flush can return an error before that.)
C19_OverflowPanicsBeforeWriting ==
    [][(IsSerializingRun /\ (Exceeds32Bits(TotalLength) \/ Exceeds32Bits(BodyLength))) =>
          /\ sink' = sink
          /\ w_last' \in {"flush_panic", "drop_panic"} \/ w_failures' = w_failures + 1]_vars

\* Witness of C19: a flush panicked on a cache whose body length fits in 32
\* bits while the total byte length does not, and the sink is empty.
C19_Witness ==
    /\ w_last = "flush_panic"
    /\ sink = <<>>
    /\ \A k \in 1..Len(default_layout) : has_attribute(cache_layout, default_layout[k])
    /\ ~Exceeds32Bits(BodyLength)
    /\ Exceeds32Bits(TotalLength)

\* The step is a write() call
IsWrite == w_calls' = w_calls + 1 /\ w_last' \in {"write_ok", "write_panic"}

\* C20: a write() with a point buffer whose layout is not the layout the
\* writer was constructed with panics and buffers none of the buffer's points.
C20_LayoutMismatchPanics ==
    [][(IsWrite /\ w_arg' # expected_layout) =>
          /\ w_last' = "write_panic"
          /\ w_pc' = "unwinding"
          /\ cached_points' = cached_points
          /\ sink' = sink]_vars

\* Witness of C20: a write() with a buffer of another layout panicked on a
\* writer that holds a point of an earlier write().
C20_Witness ==
    /\ w_last = "write_panic"
    /\ w_arg # expected_layout
    /\ w_pc = "unwinding"
    /\ Len(cached_points) = 1

\* C21: when the flush that runs at the drop of a writer returns an error, the
\* drop panics: the writer does not end as dropped, the enclosing operation
\* fails (or, when the drop ran while another panic unwound, the process
\* aborts).
C21_DropErrorPanics ==
    w_last = "drop_err" => w_pc \in {"panicked", "aborted"}

\* Witness of C21: the sink failed in the middle of the flush of a drop, after
\* the two headers were written, and the drop panicked.
C21_Witness ==
    /\ w_last = "drop_err"
    /\ w_pc = "panicked"
    /\ w_failures = 1
    /\ requires_flush
    /\ Len(cached_points) > 0
    /\ Len(sink) = 2

\* The step is the drop of a writer over the default .pnts layout whose flush
\* is the first to put anything into the sink, and the drop completes
IsDropOfDefaultLayoutWriter ==
    /\ w_pc = "open"
    /\ w_pc' = "dropped"
    /\ sink = <<>>
    /\ expected_layout = supported_attributes

\* The step ends with what was read back from the sink being the points
\* written: the layout, the number of points and, per attribute, the values of
\* all points in the order they were written
ReadsBackWhatWasWritten ==
    /\ decode(sink').ok
    /\ decode(sink').layout = expected_layout
    /\ decode(sink').POINTS_LENGTH = PointsWritten
    /\ decode(sink').values
          = {[name |-> a.name, points |-> w_written] : a \in AttributesOf(expected_layout)}

\* C25 as claimed: for any points in the default .pnts layout (position
\* Vec3f32, color Vec3u8, normal Vec3f32), writing them with a PntsWriter,
\* dropping the writer and decoding the bytes the sink received yields the
\* same layout, the same number of points and, for every attribute, the
\* original values in the original order at the attribute's referenced offset.
C25_RoundTrip ==
    [][IsDropOfDefaultLayoutWriter => ReadsBackWhatWasWritten]_vars

\* The number of bytes the sink took in the chunks of the kinds
EmittedBytes(kinds) ==
    BigSum([i \in 1..Len(Emitted) |->
        IF Emitted[i].kind \in kinds THEN Emitted[i].bytes ELSE ToBig(0)])

\* C29 as claimed: the byte lengths the container header declares match what
\* the flush emits to the sink: the feature-table-header and
\* batch-table-header lengths are the bytes written for those sections, the
\* feature-table-body length is the bytes written for all attribute regions
\* and their padding, the batch-table-body length is 0, and the total byte
\* length is the number of bytes the flush wrote.
C29_DeclaredLengthsMatchEmitted ==
    [][(requires_flush /\ ~requires_flush') =>
          /\ Emitted # <<>>
          /\ Emitted[1].kind = "pnts_header"
          /\ Emitted[1].sizes.feature_table_byte_size
                = EmittedBytes({"feature_table_header"})
          /\ Emitted[1].sizes.batch_table_byte_size
                = EmittedBytes({"batch_table_header"})
          /\ Emitted[1].sizes.feature_table_body_byte_size
                = EmittedBytes({"attribute", "padding"})
          /\ Emitted[1].sizes.batch_table_body_byte_size = ToBig(0)
          /\ Emitted[1].sizes.total_byte_length
                = EmittedBytes({"pnts_header", "feature_table_header", "attribute",
                                "padding", "batch_table_header"})]_vars

\* The supported attributes that occur in the layout the writer was
\* constructed with, stored in a data type from which there is no conversion
\* to the .pnts data type
WithoutConversion ==
    {target \in {supported_attributes[i] : i \in 1..Len(supported_attributes)} :
        \E src \in get_attribute_by_name(expected_layout, target.name) :
           /\ src.datatype # target.datatype
           /\ get_converter_for_attributes(src, target) = "None"
           /\ attribute_converters[target.name] = "None"}

\* C30 as claimed: when no conversion is available from a supported
\* attribute's source data type to its .pnts data type, the writer drops the
\* attribute: it is neither in the reduced layout nor in the feature table.
C30_UnconvertibleAttributeDropped ==
    \A target \in WithoutConversion :
       /\ get_attribute_by_name(default_layout, target.name) = {}
       /\ \A reference \in create_feature_table.references :
             reference.semantic # pnts_semantics_name_from_point_attribute(target)

\* C31 as claimed: make_compatible_layout registers "no conversion" without a
\* lookup for a supported attribute only when the attribute's source data type
\* equals its .pnts data type; whenever the two differ, the conversion is
\* looked up and the result of the lookup is what is registered.
C31_IdentityOnlyForEqualTypes ==
    \A i \in 1..Len(supported_attributes) :
       \A src \in get_attribute_by_name(expected_layout, supported_attributes[i].name) :
          LET target == supported_attributes[i]
          IN  /\ target.name \in DOMAIN attribute_converters
              /\ (target.name \notin converter_lookups(expected_layout))
                    => /\ attribute_converters[target.name] = "None"
                       /\ src.datatype = target.datatype
              /\ (src.datatype # target.datatype)
                    => /\ target.name \in converter_lookups(expected_layout)
                       /\ attribute_converters[target.name]
                             = get_converter_for_attributes(src, target)

\* ---------------------------------------------------------------------------
\* Claims about PointLayout and the point buffers (checked under SpecStorage)
\* ---------------------------------------------------------------------------

\* The values of the k-th attribute of the points pushed, in point order
ValuesOf(k) == Concat([i \in 1..Len(s_points) |-> s_points[i][k]])

\* C27: for a per-attribute and an interleaved point buffer built from the
\* same points and layout, get_raw_attribute_range over the full range returns
\* identical bytes for every attribute (the attribute's values in point
\* order), so that upload() creates identical GPU buffers from either.
C27_SameBytesFromBothBuffers ==
    s_read.done =>
        /\ s_read.columnar = s_read.interleaved
        /\ s_read.columnar = ValuesOf(s_read.attribute)
        /\ align_slice(endian, s_read.columnar, s_layout[s_read.attribute].datatype)
              = align_slice(endian, s_read.interleaved, s_layout[s_read.attribute].datatype)

\* Witness of C27: the second attribute of two different points was read from
\* both buffers; in the interleaved buffer it lies behind a gap.
C27_Witness ==
    /\ s_read.done
    /\ s_read.attribute = 2
    /\ Len(s_points) = 2
    /\ s_points[1] # s_points[2]
    /\ s_layout[2].offset > attribute_size(s_layout[1].datatype)
    /\ Len(s_read.interleaved) = 2 * attribute_size(s_layout[2].datatype)

\* C28: in any layout built by adding attributes one by one, every attribute
\* starts at an offset divisible by its alignment, the offsets do not decrease
\* in insertion order, and no two attributes overlap.
C28_LayoutOffsets ==
    \A k \in 1..Len(s_layout) :
        /\ s_layout[k].offset % s_layout[k].align = 0
        /\ \A j \in 1..(k - 1) :
              /\ s_layout[j].offset <= s_layout[k].offset
              /\ s_layout[j].offset + attribute_size(s_layout[j].datatype)
                    <= s_layout[k].offset

\* Witness of C28: a 64-bit float was added after a single byte with the
\* default alignment: it starts at offset 8.
C28_Witness ==
    /\ Len(s_layout) = 2
    /\ s_layout[1].datatype = "U8"
    /\ s_layout[2].datatype = "F64"
    /\ s_layout[2].align = 8
    /\ s_layout[2].offset = 8

\* ---------------------------------------------------------------------------
\* Claims about realignment (checked under SpecAlign)
\* ---------------------------------------------------------------------------

\* The bytes of a value in least-significant-first order
LsbFirst(e, bytes) == IF e = "little" THEN bytes ELSE Reverse(bytes)

\* The unsigned value of a one- or two-byte element
UnsignedValue(e, bytes) ==
    LET b == LsbFirst(e, bytes)
    IN  IF Len(b) = 1 THEN b[1] ELSE b[1] + 256 * b[2]

\* The two's complement value of a one- or two-byte element
SignedValue(e, bytes) ==
    LET b == LsbFirst(e, bytes)
        top == b[Len(b)]
        high == IF top >= 128 THEN top - 256 ELSE top
    IN  IF Len(b) = 1 THEN high ELSE b[1] + 256 * high

\* The two's complement value of four bytes
Value32(e, bytes) ==
    LET b == LsbFirst(e, bytes)
    IN  b[1] + 256 * b[2] + 65536 * b[3]
          + 16777216 * (IF b[4] >= 128 THEN b[4] - 256 ELSE b[4])

\* Four bytes are the 32-bit unsigned integer v (v below 2^31)
IsU32(e, bytes, v) == LsbFirst(e, bytes)[4] < 128 /\ Value32(e, bytes) = v

\* Four bytes are the 32-bit signed integer v
IsI32(e, bytes, v) == Value32(e, bytes) = v

\* The k-th chunk of width w of a byte sequence (k from 1)
Chunk(bytes, k, w) == SubSeq(bytes, (k - 1) * w + 1, k * w)

\* Number of elements of the input of align_slice
InputElements == Len(a_slice) \div bytes_per_element(a_datatype)

\* C7: realignment turns every element of a U8, U16 or Bool attribute into the
\* u32 of the same value and every element of an I8 or I16 attribute into the
\* i32 of the same value, keeping the number and the order of the elements.
C7_ScalarWidening ==
    (a_result.done /\ a_datatype \in {"U8", "U16", "Bool", "I8", "I16"}) =>
        LET w == bytes_per_element(a_datatype)
        IN  /\ ~a_result.panic
            /\ Len(a_result.bytes) = 4 * InputElements
            /\ \A k \in 1..InputElements :
                  IF a_datatype \in {"I8", "I16"}
                  THEN IsI32(endian, Chunk(a_result.bytes, k, 4),
                             SignedValue(endian, Chunk(a_slice, k, w)))
                  ELSE IsU32(endian, Chunk(a_result.bytes, k, 4),
                             UnsignedValue(endian, Chunk(a_slice, k, w)))

\* Witness of C7: two 16-bit signed elements, the first negative, the second
\* not, have been realigned.
C7_Witness ==
    /\ a_result.done
    /\ a_datatype = "I16"
    /\ InputElements = 2
    /\ SignedValue(endian, Chunk(a_slice, 1, 2)) < 0
    /\ SignedValue(endian, Chunk(a_slice, 2, 2)) > 0

\* IEEE 754 1.0 as a 32-bit float (0x3F800000) and as a 64-bit float
\* (0x3FF0000000000000), most significant byte last
FloatOne32 == <<0, 0, 128, 63>>
FloatOne64 == <<0, 0, 0, 0, 0, 0, 240, 63>>

\* C8: realignment expands every 3-component vector to 4 components: the three
\* original components after scalar widening, then the constant one in the
\* widened base type.
C8_Vec3ToVec4 ==
    (a_result.done /\ a_datatype \in {"Vec3u8", "Vec3u16", "Vec3f32", "Vec3f64"}) =>
        LET w == bytes_per_element(a_datatype)
            c == w \div 3
            out == IF a_datatype = "Vec3f64" THEN 32 ELSE 16
        IN  /\ ~a_result.panic
            /\ Len(a_result.bytes) = out * InputElements
            /\ \A k \in 1..InputElements :
                  LET src == Chunk(a_slice, k, w)
                      dst == Chunk(a_result.bytes, k, out)
                  IN  CASE a_datatype \in {"Vec3u8", "Vec3u16"} ->
                             /\ \A j \in 1..3 :
                                   IsU32(endian, Chunk(dst, j, 4),
                                         UnsignedValue(endian, Chunk(src, j, c)))
                             /\ IsU32(endian, Chunk(dst, 4, 4), 1)
                        [] a_datatype = "Vec3f32" ->
                             /\ SubSeq(dst, 1, 12) = src
                             /\ LsbFirst(endian, SubSeq(dst, 13, 16)) = FloatOne32
                        [] a_datatype = "Vec3f64" ->
                             /\ SubSeq(dst, 1, 24) = src
                             /\ LsbFirst(endian, SubSeq(dst, 25, 32)) = FloatOne64

\* Witness of C8: the Vec3u8 element [1, 127, 128] has been realigned.
C8_Witness ==
    /\ a_result.done
    /\ a_datatype = "Vec3u8"
    /\ InputElements >= 1
    /\ SubSeq(a_slice, 1, 3) = <<1, 127, 128>>

\* C10: for U32, I32, F32 and F64 the realigned bytes are the bytes read from
\* the point buffer, in length and content.
C10_PassThrough ==
    (a_result.done /\ a_datatype \in {"U32", "I32", "F32", "F64"}) =>
        /\ ~a_result.panic
        /\ a_result.bytes = a_slice

\* Witness of C10: two F64 elements holding different bytes were realigned.
C10_Witness ==
    /\ a_result.done
    /\ a_datatype = "F64"
    /\ Len(a_slice) = 16
    /\ a_slice[1] # a_slice[2]

\* ---------------------------------------------------------------------------
\* Claims about ExtraBytesRecord (checked under SpecExtraBytes)
\* ---------------------------------------------------------------------------

NoDataAccessors == {"no_data_value_f64", "no_data_value_i64", "no_data_value_u64"}

\* The data types of the family of the accessor
AccessorTypes(name) ==
    CASE name \in {"no_data_value_f64", "min_value_f64"} -> {"F32", "F64"}
      [] name \in {"no_data_value_i64", "min_value_i64"} -> {"I8", "I16", "I32", "I64"}
      [] name \in {"no_data_value_u64", "min_value_u64"} -> {"U8", "U16", "U32", "U64"}

\* The number type the accessor returns
AccessorReturns(name) ==
    CASE name \in {"no_data_value_f64", "min_value_f64"} -> "f64"
      [] name \in {"no_data_value_i64", "min_value_i64"} -> "i64"
      [] name \in {"no_data_value_u64", "min_value_u64"} -> "u64"

\* The optional value of the record the accessor reads
AccessedField(name) ==
    IF name \in NoDataAccessors THEN e_record.no_data_value ELSE e_record.min_value

\* The position of the field of that name in the raw record
FieldIndex(name) ==
    CHOOSE k \in 1..Len(ExtraBytesRecordRaw) : ExtraBytesRecordRaw[k].name = name

\* The byte offset of the field of that name in the raw record
RawOffset(name) == offset_of_field(ExtraBytesRecordRaw, FieldIndex(name), packed)

\* The sum of the sizes of the first k fields of the raw record
RECURSIVE RawSizes(_)
RawSizes(k) == IF k = 0 THEN 0 ELSE RawSizes(k - 1) + ExtraBytesRecordRaw[k].size

\* C26: one raw extra-bytes record occupies exactly 192 bytes without padding,
\* its fields in the order 2 reserved, 1 data-type code, 1 options, 32 name,
\* 4 unused, 8 NO_DATA, 16 deprecated, 8 min, 16 deprecated, 8 max,
\* 16 deprecated, 8 scale, 16 deprecated, 8 offset, 16 deprecated,
\* 32 description; NO_DATA starts at byte 40, min at 64, max at 88, scale at
\* 112, offset at 136 and description at 160. The NO_DATA and minimum patterns
\* a record holds are as wide as the raw record's fields for them.
C26_RawRecordLayout ==
    /\ e_record.no_data_value.some =>
          Len(e_record.no_data_value.bytes) = ExtraBytesRecordRaw[FieldIndex("no_data")].size
    /\ e_record.min_value.some =>
          Len(e_record.min_value.bytes) = ExtraBytesRecordRaw[FieldIndex("min")].size
    /\ size_of(ExtraBytesRecordRaw, packed) = 192
    /\ RawSizes(Len(ExtraBytesRecordRaw)) = 192
    /\ [k \in 1..Len(ExtraBytesRecordRaw) |-> ExtraBytesRecordRaw[k].size]
          = <<2, 1, 1, 32, 4, 8, 16, 8, 16, 8, 16, 8, 16, 8, 16, 32>>
    /\ <<FieldIndex("data_type"), FieldIndex("options"), FieldIndex("name"),
          FieldIndex("no_data"), FieldIndex("min"), FieldIndex("max"),
          FieldIndex("scale"), FieldIndex("offset"), FieldIndex("description")>>
          = <<2, 3, 4, 6, 8, 10, 12, 14, 16>>
    /\ RawOffset("no_data") = 40
    /\ RawOffset("min") = 64
    /\ RawOffset("max") = 88
    /\ RawOffset("scale") = 112
    /\ RawOffset("offset") = 136
    /\ RawOffset("description") = 160

\* Witness of C26: a record holds a NO_DATA and a minimum pattern, each of the
\* eight bytes the raw record has for it at bytes 40..47 and 64..71.
C26_Witness ==
    /\ e_call # "none"
    /\ e_record.no_data_value.some
    /\ e_record.min_value.some
    /\ Len(e_record.no_data_value.bytes) = ExtraBytesRecordRaw[FieldIndex("no_data")].size
    /\ Len(e_record.min_value.bytes) = ExtraBytesRecordRaw[FieldIndex("min")].size
    /\ RawOffset("no_data") + Len(e_record.no_data_value.bytes) = 48
    /\ RawOffset("min") + Len(e_record.min_value.bytes) = 72

\* C17 as claimed: an accessor called on a record whose data type is not of
\* the accessor's family panics, for every such record.
C17_WrongFamilyPanics ==
    (e_call # "none" /\ e_record.data_type \notin AccessorTypes(e_call))
        => e_result.outcome = "panic"

\* The number is one of its type: every digit and field in its range
WellFormed(v) ==
    /\ \A j \in 2..4 : v.digits[j] \in 0..65535
    /\ v.family = "u64" => v.digits[1] \in 0..65535 /\ v.sign = 0 /\ v.exponent = 0
    /\ v.family = "i64" => v.digits[1] \in -32768..32767 /\ v.sign = 0 /\ v.exponent = 0
    /\ v.family = "f64" =>
          v.digits[1] \in 0..15 /\ v.sign \in 0..1 /\ v.exponent \in 0..2047

\* The top 16 bits of the number's 64-bit encoding
TopBits(v) ==
    IF v.family = "f64" THEN v.sign * 32768 + v.exponent * 16 + v.digits[1]
    ELSE v.digits[1] % 65536

\* The eight bytes of the number's encoding, least significant byte first
LittleEndianBytes(v) ==
    [k \in 1..8 |->
        LET digit == IF k >= 7 THEN TopBits(v) ELSE v.digits[4 - ((k - 1) \div 2)]
        IN  IF k % 2 = 1 THEN digit % 256 ELSE digit \div 256]

====
